---- MODULE Spec2Model ----
(***************************************************************************)
(* samrenderer: the recursive intrinsic-function resolver of               *)
(* src/src/samrenderer/main.py (TemplateRenderer), the context built by    *)
(* its constructor and by process(), the resolve_resources() loop, and the *)
(* two process() threads of async_main()'s two-environment mode.           *)
(*                                                                         *)
(* Python values are tagged records (VNone, VBool, VInt, VStr, VList,      *)
(* VDict); a string is the sequence of its characters, so that the regular *)
(* expressions, str.lower, str.split, str.join and the f-strings of the    *)
(* code are computed on characters.  A dict is the sequence of its         *)
(* <<key, value>> entries in insertion order; keys are strings.  A call    *)
(* that raises returns VRaise(exception) in place of a value.  Every       *)
(* operator that models a method returns [v |-> value or VRaise, tr |->    *)
(* the events of the call]: the nodes passed to resolve(), the lines       *)
(* _log() printed and the provider calls, in order.                        *)
(***************************************************************************)
EXTENDS Integers, Sequences, FiniteSets, TLC

VARIABLES
    template,               \* the parsed template file (self.t)
    config,                 \* the environment-config file as load_sam_config finds it
    env_name,               \* process(env=...): the environment's name
    profile,                \* process(profile=...): VNone or a profile name
    log_level_int,          \* self.log_level_int
    aws,                    \* what the provider answers now (behind self.boto_session)
    arg,                    \* the node a caller of the renderer passes to resolve()
    pc,                     \* position in process()
    sam_params,             \* process(): load_sam_config's result
    context,                \* self.context
    mappings,               \* self.mappings
    conditions,             \* self.conditions
    resources,              \* self.resources
    current_resource_id,    \* self.current_resource_id
    current_resource_type,  \* self.current_resource_type
    ri,                     \* resolve_resources(): entries of self.resources done
    resolved,               \* resolve_resources(): the local dict `resolved`
    output,                 \* process(): the returned output
    node,                   \* argument of the latest resolve() call made on the renderer
    result,                 \* what that call returned (or VRaise)
    trace,                  \* the events of that call
    renderers,              \* async_main(), two environments: the two process() threads
    finished,               \* async_main(): the threads in the order they completed
    diff,                   \* async_main(): what compare() was called with
    stack                   \* the interpreter's stack of resolve() calls not yet returned

vars == <<template, config, env_name, profile, log_level_int, aws, arg, pc, sam_params,
          context,
          mappings, conditions, resources, current_resource_id,
          current_resource_type, ri, resolved, output, node, result, trace,
          renderers, finished, diff, stack>>

-----------------------------------------------------------------------------
(* Python values *)

VNone == [t |-> "none"]
VBool(b) == [t |-> "bool", b |-> b]
VInt(n) == [t |-> "int", n |-> n]
VStr(s) == [t |-> "str", s |-> s]
VList(xs) == [t |-> "list", xs |-> xs]
VDict(kv) == [t |-> "dict", kv |-> kv]
VRaise(e) == [t |-> "raise", e |-> e]

IsRaise(v) == v.t = "raise"

\* the outcome of a call: its value (or VRaise) and its events
Res(v, tr) == [v |-> v, tr |-> tr]
Ok(v) == [v |-> v, tr |-> <<>>]
\* outcome b, reached after the events tr
After(tr, b) == [v |-> b.v, tr |-> tr \o b.tr]

-----------------------------------------------------------------------------
(* The string literals of main.py, as character sequences *)

K_Ref == <<"R","e","f">>  \* Ref
K_FindInMap == <<"F","n",":",":","F","i","n","d","I","n","M","a","p">>  \* Fn::FindInMap
K_Sub == <<"F","n",":",":","S","u","b">>  \* Fn::Sub
K_ImportValue == <<"F","n",":",":","I","m","p","o","r","t","V","a","l","u","e">>  \* Fn::ImportValue
K_Join == <<"F","n",":",":","J","o","i","n">>  \* Fn::Join
K_GetAtt == <<"F","n",":",":","G","e","t","A","t","t">>  \* Fn::GetAtt
K_Select == <<"F","n",":",":","S","e","l","e","c","t">>  \* Fn::Select
K_Split == <<"F","n",":",":","S","p","l","i","t">>  \* Fn::Split
K_Base64 == <<"F","n",":",":","B","a","s","e","6","4">>  \* Fn::Base64
K_GetAZs == <<"F","n",":",":","G","e","t","A","Z","s">>  \* Fn::GetAZs
K_Length == <<"F","n",":",":","L","e","n","g","t","h">>  \* Fn::Length
K_If == <<"F","n",":",":","I","f">>  \* Fn::If
K_Equals == <<"F","n",":",":","E","q","u","a","l","s">>  \* Fn::Equals
K_Not == <<"F","n",":",":","N","o","t">>  \* Fn::Not
K_And == <<"F","n",":",":","A","n","d">>  \* Fn::And
K_Or == <<"F","n",":",":","O","r">>  \* Fn::Or
K_Condition == <<"C","o","n","d","i","t","i","o","n">>  \* Condition
K_FnCondition == <<"F","n",":",":","C","o","n","d","i","t","i","o","n">>  \* Fn::Condition
K_Region == <<"A","W","S",":",":","R","e","g","i","o","n">>  \* AWS::Region
K_AccountId == <<"A","W","S",":",":","A","c","c","o","u","n","t","I","d">>  \* AWS::AccountId
K_StackName == <<"A","W","S",":",":","S","t","a","c","k","N","a","m","e">>  \* AWS::StackName
K_Partition == <<"A","W","S",":",":","P","a","r","t","i","t","i","o","n">>  \* AWS::Partition
K_URLSuffix == <<"A","W","S",":",":","U","R","L","S","u","f","f","i","x">>  \* AWS::URLSuffix
K_NoValue == <<"A","W","S",":",":","N","o","V","a","l","u","e">>  \* AWS::NoValue
S_AccountId == <<"1","2","3","4","5","6","7","8","9","0","1","2">>  \* 123456789012
S_StackName == <<"L","o","c","a","l","-","R","e","n","d","e","r","-","S","t","a","c","k">>  \* Local-Render-Stack
S_Partition == <<"a","w","s">>  \* aws
S_URLSuffix == <<"a","m","a","z","o","n","a","w","s",".","c","o","m">>  \* amazonaws.com
S_DefaultRegion == <<"u","s","-","e","a","s","t","-","1">>  \* us-east-1
K_Default == <<"D","e","f","a","u","l","t">>  \* Default
K_Type == <<"T","y","p","e">>  \* Type
K_DefaultValue == <<"D","e","f","a","u","l","t","V","a","l","u","e">>  \* DefaultValue
S_Mock == <<"m","o","c","k","-">>  \* mock-
S_Id == <<"-","i","d">>  \* -id
S_RefOpen == <<"{","R","e","f",":"," ">>  \* {Ref: 
S_Close == <<"}">>  \* }
S_MapError == <<"{","E","r","r","o","r",":"," ","C","o","u","l","d"," ","n","o","t"," ","r","e","s","o","l","v","e"," ","M","a","p"," ">>  \* {Error: Could not resolve Map 
S_Dot == <<".">>  \* .
S_SelectError == <<"{","E","r","r","o","r",":"," ","S","e","l","e","c","t"," ","i","n","d","e","x"," ">>  \* {Error: Select index 
S_OutOfBounds == <<" ","o","u","t"," ","o","f"," ","b","o","u","n","d","s","}">>  \*  out of bounds}
S_Base64Open == <<"[","B","a","s","e","6","4",":"," ">>  \* [Base64: 
S_Base64Close == <<"]">>  \* ]
S_MockImport == <<"m","o","c","k","-","i","m","p","o","r","t","-">>  \* mock-import-
S_MockSecret == <<"m","o","c","k","-","s","e","c","r","e","t","-">>  \* mock-secret-
S_ResolveOpen == <<"{","{","r","e","s","o","l","v","e",":">>  \* {{resolve:
S_SecretsManager == <<"s","e","c","r","e","t","s","m","a","n","a","g","e","r">>  \* secretsmanager
S_KeyError == <<"{","E","r","r","o","r",":"," ","K","e","y"," ">>  \* {Error: Key 
S_NotFoundInSecret == <<" ","n","o","t"," ","f","o","u","n","d"," ","i","n"," ","s","e","c","r","e","t"," ">>  \*  not found in secret 
S_NotJson == <<"{","E","r","r","o","r",":"," ","S","e","c","r","e","t"," ","i","s"," ","n","o","t"," ","v","a","l","i","d"," ","J","S","O","N",":"," ">>  \* {Error: Secret is not valid JSON: 
S_True == <<"T","r","u","e">>  \* True
S_False == <<"F","a","l","s","e">>  \* False
S_None == <<"N","o","n","e">>  \* None
S_Dash == <<"-">>  \* -
K_deploy == <<"d","e","p","l","o","y">>  \* deploy
K_parameters == <<"p","a","r","a","m","e","t","e","r","s">>  \* parameters
K_parameter_overrides == <<"p","a","r","a","m","e","t","e","r","_","o","v","e","r","r","i","d","e","s">>  \* parameter_overrides
K_region == <<"r","e","g","i","o","n">>  \* region
K_Parameters == <<"P","a","r","a","m","e","t","e","r","s">>  \* Parameters
K_Mappings == <<"M","a","p","p","i","n","g","s">>  \* Mappings
K_Conditions == <<"C","o","n","d","i","t","i","o","n","s">>  \* Conditions
K_Resources == <<"R","e","s","o","u","r","c","e","s">>  \* Resources
M_UsedDefault == <<"U","s","e","d"," ","D","e","f","a","u","l","t"," ","V","a","l","u","e">>  \* Used Default Value
M_KeyNotFound == <<"K","e","y"," ","n","o","t"," ","f","o","u","n","d">>  \* Key not found
M_ResolvedTo == <<"R","e","s","o","l","v","e","d"," ","t","o",":"," ">>  \* Resolved to: 
M_ResolvedToMock == <<"R","e","s","o","l","v","e","d"," ","t","o"," ","M","o","c","k",":"," ">>  \* Resolved to Mock: 
M_InvalidJson == <<"I","n","v","a","l","i","d"," ","J","S","O","N">>  \* Invalid JSON
M_Key == <<"K","e","y"," ">>  \* Key 
M_NotFound == <<" ","n","o","t"," ","f","o","u","n","d">>  \*  not found

-----------------------------------------------------------------------------
(* Python's built-in operations on these values *)

Digit == <<"0","1","2","3","4","5","6","7","8","9">>
UpperAlpha == <<"A","B","C","D","E","F","G","H","I","J","K","L","M","N","O","P","Q","R","S","T","U","V","W","X","Y","Z">>
LowerAlpha == <<"a","b","c","d","e","f","g","h","i","j","k","l","m","n","o","p","q","r","s","t","u","v","w","x","y","z">>

IsDigit(c) == \E d \in 1..10 : Digit[d] = c
DigitVal(c) == (CHOOSE d \in 1..10 : Digit[d] = c) - 1

\* str(n) for an int n
RECURSIVE NatStr(_)
NatStr(n) ==
    IF n < 10 THEN <<Digit[n + 1]>>
    ELSE NatStr(n \div 10) \o <<Digit[(n % 10) + 1]>>
IntStr(n) == IF n < 0 THEN <<"-">> \o NatStr(-n) ELSE NatStr(n)

RECURSIVE NatVal(_)
NatVal(s) ==
    IF s = <<>> THEN 0
    ELSE 10 * NatVal(SubSeq(s, 1, Len(s) - 1)) + DigitVal(s[Len(s)])

\* str.strip() of the blanks at both ends
RECURSIVE Strip(_)
Strip(s) ==
    IF s # <<>> /\ s[1] = " " THEN Strip(Tail(s))
    ELSE IF s # <<>> /\ s[Len(s)] = " " THEN Strip(SubSeq(s, 1, Len(s) - 1))
    ELSE s

\* int(s) for a str s: blanks around, an optional sign, decimal digits, single
\* underscores between digits
ParseInt(s) ==
    LET b == Strip(s)
        signed == b # <<>> /\ b[1] \in {"-", "+"}
        body == IF signed THEN Tail(b) ELSE b
        digits == SelectSeq(body, IsDigit)
    IN  IF /\ body # <<>>
           /\ \A i \in 1..Len(body) :
                \/ IsDigit(body[i])
                \/ /\ body[i] = "_"
                   /\ 1 < i /\ i < Len(body)
                   /\ IsDigit(body[i - 1]) /\ IsDigit(body[i + 1])
        THEN VInt(IF signed /\ b[1] = "-" THEN -NatVal(digits) ELSE NatVal(digits))
        ELSE VRaise("ValueError")

\* int(v)
PyInt(v) ==
    CASE v.t = "int" -> v
      [] v.t = "bool" -> VInt(IF v.b THEN 1 ELSE 0)
      [] v.t = "str" -> ParseInt(v.s)
      [] OTHER -> VRaise("TypeError")

\* str.lower()
LowerChar(c) ==
    IF \E i \in 1..26 : UpperAlpha[i] = c
    THEN LowerAlpha[CHOOSE i \in 1..26 : UpperAlpha[i] = c]
    ELSE c
Lower(s) == [i \in 1..Len(s) |-> LowerChar(s[i])]

\* sep.join(parts) for a sequence of strings
RECURSIVE JoinStrs(_, _)
JoinStrs(sep, parts) ==
    IF parts = <<>> THEN <<>>
    ELSE IF Len(parts) = 1 THEN parts[1]
    ELSE parts[1] \o sep \o JoinStrs(sep, Tail(parts))

StartsWith(s, i, p) ==
    /\ i >= 1
    /\ i + Len(p) - 1 <= Len(s)
    /\ SubSeq(s, i, i + Len(p) - 1) = p

\* the first index >= from at which s holds c, 0 when there is none
FirstIndex(s, c, from) ==
    LET hits == {i \in from..Len(s) : i >= 1 /\ s[i] = c}
    IN  IF hits = {} THEN 0 ELSE CHOOSE i \in hits : \A j \in hits : i <= j

\* s.split(d) for a non-empty separator d
RECURSIVE SplitAt(_, _, _, _)
SplitAt(s, d, i, start) ==
    IF i + Len(d) - 1 > Len(s) THEN <<SubSeq(s, start, Len(s))>>
    ELSE IF StartsWith(s, i, d)
         THEN <<SubSeq(s, start, i - 1)>> \o SplitAt(s, d, i + Len(d), i + Len(d))
         ELSE SplitAt(s, d, i + 1, start)
StrSplit(s, d) == SplitAt(s, d, 1, 1)

\* s.split(None): the runs of non-blank characters
RECURSIVE SplitBlank(_, _)
SplitBlank(s, cur) ==
    IF s = <<>> THEN (IF cur = <<>> THEN <<>> ELSE <<cur>>)
    ELSE IF s[1] = " "
         THEN (IF cur = <<>> THEN <<>> ELSE <<cur>>) \o SplitBlank(Tail(s), <<>>)
         ELSE SplitBlank(Tail(s), cur \o <<s[1]>>)

IsSubstring(p, s) == \E i \in 1..(Len(s) + 1) : StartsWith(s, i, p)

\* repr(s) of a str: single quotes, double quotes when s holds a single quote and
\* no double quote, the single quotes escaped when it holds both
RECURSIVE EscapeQuotes(_)
EscapeQuotes(s) ==
    IF s = <<>> THEN <<>>
    ELSE (IF s[1] = "'" THEN <<"\\", "'">> ELSE <<s[1]>>) \o EscapeQuotes(Tail(s))
StrRepr(s) ==
    IF (\E i \in 1..Len(s) : s[i] = "'") /\ ~(\E i \in 1..Len(s) : s[i] = "\"")
    THEN <<"\"">> \o s \o <<"\"">>
    ELSE <<"'">> \o EscapeQuotes(s) \o <<"'">>

\* repr(v), and str(v): the value as an f-string or str() renders it
RECURSIVE PyRepr(_)
PyRepr(v) ==
    CASE v.t = "none" -> S_None
      [] v.t = "bool" -> (IF v.b THEN S_True ELSE S_False)
      [] v.t = "int" -> IntStr(v.n)
      [] v.t = "str" -> StrRepr(v.s)
      [] v.t = "list" ->
            <<"[">> \o JoinStrs(<<",", " ">>, [i \in 1..Len(v.xs) |-> PyRepr(v.xs[i])])
                    \o <<"]">>
      [] v.t = "dict" ->
            <<"{">> \o JoinStrs(<<",", " ">>,
                         [i \in 1..Len(v.kv) |->
                             StrRepr(v.kv[i][1]) \o <<":", " ">> \o PyRepr(v.kv[i][2])])
                    \o <<"}">>
PyStr(v) == IF v.t = "str" THEN v.s ELSE PyRepr(v)

\* bool(v)
Truthy(v) ==
    CASE v.t = "none" -> FALSE
      [] v.t = "bool" -> v.b
      [] v.t = "int" -> v.n # 0
      [] v.t = "str" -> v.s # <<>>
      [] v.t = "list" -> v.xs # <<>>
      [] v.t = "dict" -> v.kv # <<>>

\* a == b: True == 1, lists element by element, dicts whatever the order of their entries
RECURSIVE EqKey(_)
EqKey(v) ==
    CASE v.t = "bool" -> VInt(IF v.b THEN 1 ELSE 0)
      [] v.t = "list" -> VList([i \in 1..Len(v.xs) |-> EqKey(v.xs[i])])
      [] v.t = "dict" ->
            [t |-> "dict", es |-> {<<v.kv[i][1], EqKey(v.kv[i][2])>> : i \in 1..Len(v.kv)}]
      [] OTHER -> v
PyEq(a, b) == EqKey(a) = EqKey(b)

Unhashable(k) == k.t \in {"list", "dict"}

\* dict operations; the keys of every dict are strings
HasKey(d, s) == \E i \in 1..Len(d.kv) : d.kv[i][1] = s
Get(d, s) == d.kv[CHOOSE i \in 1..Len(d.kv) : d.kv[i][1] = s][2]
Keys(d) == {d.kv[i][1] : i \in 1..Len(d.kv)}
\* d[s] = v
Put(d, s, v) ==
    IF HasKey(d, s)
    THEN VDict([i \in 1..Len(d.kv) |-> IF d.kv[i][1] = s THEN <<s, v>> ELSE d.kv[i]])
    ELSE VDict(Append(d.kv, <<s, v>>))
\* d.update(e), had it kept the value of a key d already holds
RECURSIVE UpdateKeep(_, _)
UpdateKeep(d, e) ==
    IF e.kv = <<>> THEN d
    ELSE UpdateKeep(IF HasKey(d, e.kv[1][1]) THEN d ELSE Put(d, e.kv[1][1], e.kv[1][2]),
                    VDict(Tail(e.kv)))
\* d.update(e)
RECURSIVE Update(_, _)
Update(d, e) ==
    IF e.kv = <<>> THEN d
    ELSE Update(Put(d, e.kv[1][1], e.kv[1][2]), VDict(Tail(e.kv)))

\* k in c
PyContains(c, k) ==
    CASE c.t = "dict" ->
            (IF Unhashable(k) THEN VRaise("TypeError")
             ELSE VBool(k.t = "str" /\ HasKey(c, k.s)))
      [] c.t = "list" -> VBool(\E i \in 1..Len(c.xs) : PyEq(c.xs[i], k))
      [] c.t = "str" ->
            (IF k.t = "str" THEN VBool(IsSubstring(k.s, c.s)) ELSE VRaise("TypeError"))
      [] OTHER -> VRaise("TypeError")

\* c[k]
Subscript(c, k) ==
    LET n == IF k.t = "bool" THEN (IF k.b THEN 1 ELSE 0) ELSE k.n
        len == IF c.t = "list" THEN Len(c.xs) ELSE Len(c.s)
        at == IF n < 0 THEN n + len + 1 ELSE n + 1
    IN  CASE c.t = "dict" ->
                (IF Unhashable(k) THEN VRaise("TypeError")
                 ELSE IF k.t = "str" /\ HasKey(c, k.s) THEN Get(c, k.s)
                 ELSE VRaise("KeyError"))
          [] c.t \in {"list", "str"} ->
                (IF k.t \notin {"int", "bool"} THEN VRaise("TypeError")
                 ELSE IF at < 1 \/ at > len THEN VRaise("IndexError")
                 ELSE IF c.t = "list" THEN c.xs[at] ELSE VStr(<<c.s[at]>>))
          [] OTHER -> VRaise("TypeError")

\* iter(v): the items a for-loop or a generator over v visits
IsIterable(v) == v.t \in {"list", "dict", "str"}
Items(v) ==
    CASE v.t = "list" -> v.xs
      [] v.t = "dict" -> [i \in 1..Len(v.kv) |-> VStr(v.kv[i][1])]
      [] v.t = "str" -> [i \in 1..Len(v.s) |-> VStr(<<v.s[i]>>)]

-----------------------------------------------------------------------------
(* The renderer's fields as the methods read them, and the events of a call *)

LOG_LEVELS ==
    [DEBUG |-> 10, INFO |-> 20, WARN |-> 30, WARNING |-> 30, ERROR |-> 40, CRITICAL |-> 50]

\* self.boto_session / self.cfn_client: a session exists when a profile was given
HasSession(self) == Truthy(self.profile)

\* resolve(node) was entered
EvResolve(n) == [e |-> "resolve", node |-> n]
\* a request sent to the provider
EvCall(api, a) == [e |-> "call", api |-> api, arg |-> a]

\* _log(): the line printed on stderr, nothing below the renderer's level.
\* A field the entry does not carry (resource_id, resource_type, message) is VNone.
Log(self, operation, key, message, level) ==
    IF LOG_LEVELS[level] < self.log_level_int THEN <<>>
    ELSE <<[e |-> "log", level |-> level, operation |-> operation,
            env |-> self.env_name, profile |-> self.profile, key |-> key,
            resource_id |-> IF Truthy(self.current_resource_id)
                            THEN self.current_resource_id ELSE VNone,
            resource_type |-> IF Truthy(self.current_resource_type)
                              THEN self.current_resource_type ELSE VNone,
            message |-> IF Truthy(message) THEN message ELSE VNone]>>

-----------------------------------------------------------------------------
(* The dynamic-reference sub-resolver *)

NoMatch == [found |-> FALSE]

\* re: \{\{resolve:([^:]+):([^}]+)\}\} tried at position i of s
DynRefAt(s, i) ==
    LET p == i + Len(S_ResolveOpen)
        j == FirstIndex(s, ":", p)
        k == FirstIndex(s, "}", j + 1)
    IN  IF /\ StartsWith(s, i, S_ResolveOpen)
           /\ j > p
           /\ k > j + 1
           /\ k + 1 <= Len(s)
           /\ s[k + 1] = "}"
        THEN [found |-> TRUE, service |-> SubSeq(s, p, j - 1),
              reference |-> SubSeq(s, j + 1, k - 1)]
        ELSE NoMatch

\* re.search: the leftmost match
DynRefSearch(s) ==
    LET hits == {i \in 1..Len(s) : DynRefAt(s, i).found}
    IN  IF hits = {} THEN NoMatch
        ELSE DynRefAt(s, CHOOSE i \in hits : \A j \in hits : i <= j)

\* json.loads(s), for the JSON texts a secret of the bounded provider holds: an
\* integer, null, a string without escapes, an object of one string member
JsonLoads(s) ==
    LET n == Len(s)
        sep == <<"\"", ":", " ", "\"">>
        cut == CHOOSE i \in 1..n : StartsWith(s, i, sep)
    IN  IF n > 0 /\ \A i \in 1..n : IsDigit(s[i])
        THEN [ok |-> TRUE, val |-> VInt(NatVal(s))]
        ELSE IF s = <<"n","u","l","l">> THEN [ok |-> TRUE, val |-> VNone]
        ELSE IF n >= 2 /\ s[1] = "\"" /\ s[n] = "\"" /\ FirstIndex(s, "\"", 2) = n
        THEN [ok |-> TRUE, val |-> VStr(SubSeq(s, 2, n - 1))]
        ELSE IF /\ n >= 10
                /\ SubSeq(s, 1, 2) = <<"{", "\"">>
                /\ SubSeq(s, n - 1, n) = <<"\"", "}">>
                /\ Cardinality({i \in 1..n : s[i] = "\""}) = 4
                /\ \E i \in 1..n : StartsWith(s, i, sep)
        THEN [ok |-> TRUE,
              val |-> VDict(<< <<SubSeq(s, 3, cut - 1),
                                 VStr(SubSeq(s, cut + 4, n - 2))>> >>)]
        ELSE [ok |-> FALSE]

\* str(b) of a bytes payload
BytesStr(data) == <<"b", "'">> \o data \o <<"'">>

\* _resolve_secretsmanager, had it named its mock after the whole reference
resolve_secretsmanager_whole(reference, self) ==
    LET parts == StrSplit(reference, <<":">>)
        secret_id == parts[1]
        json_key == IF Len(parts) > 1 THEN VStr(parts[2]) ELSE VNone
        mock == VStr(S_MockSecret \o reference)
        call == <<EvCall("get_secret_value", VStr(secret_id))>>
        response == self.aws.get_secret_value
        secret_string == IF response.k = "string" THEN response.SecretString ELSE <<>>
        secret_data == JsonLoads(secret_string)
        has == PyContains(secret_data.val, json_key)
        info == Log(self, "Resolve:SecretsManager", VStr(reference), VNone, "INFO")
    IN  IF ~HasSession(self) THEN Ok(mock)
        ELSE IF response.k = "ClientError"
        THEN Res(mock, call \o Log(self, "Resolve:SecretsManager", VStr(reference),
                                   VStr(response.message), "ERROR"))
        ELSE IF response.k = "binary"
        THEN Res(VStr(BytesStr(response.SecretBinary)), call \o info)
        ELSE IF ~Truthy(json_key) THEN Res(VStr(secret_string), call \o info)
        ELSE IF ~secret_data.ok
        THEN Res(VStr(S_NotJson \o secret_id \o S_Close),
                 call \o Log(self, "Resolve:SecretsManager", VStr(reference),
                             VStr(M_InvalidJson), "ERROR"))
        ELSE IF IsRaise(has) THEN Res(has, call)
        ELSE IF ~has.b
        THEN Res(VStr(S_KeyError \o json_key.s \o S_NotFoundInSecret \o secret_id
                      \o S_Close),
                 call \o Log(self, "Resolve:SecretsManager", VStr(reference),
                             VStr(M_Key \o json_key.s \o M_NotFound), "ERROR"))
        ELSE Res(Subscript(secret_data.val, json_key), call \o info)

resolve_secretsmanager(reference, self) ==
    LET parts == StrSplit(reference, <<":">>)
        secret_id == parts[1]
        json_key == IF Len(parts) > 1 THEN VStr(parts[2]) ELSE VNone
        mock == VStr(S_MockSecret \o secret_id)
        call == <<EvCall("get_secret_value", VStr(secret_id))>>
        response == self.aws.get_secret_value
        secret_string == IF response.k = "string" THEN response.SecretString ELSE <<>>
        secret_data == JsonLoads(secret_string)
        has == PyContains(secret_data.val, json_key)
        info == Log(self, "Resolve:SecretsManager", VStr(reference), VNone, "INFO")
    IN  IF ~HasSession(self) THEN Ok(mock)
        ELSE IF response.k = "ClientError"
        THEN Res(mock, call \o Log(self, "Resolve:SecretsManager", VStr(reference),
                                   VStr(response.message), "ERROR"))
        ELSE IF response.k = "binary"
        THEN Res(VStr(BytesStr(response.SecretBinary)), call \o info)
        ELSE IF ~Truthy(json_key) THEN Res(VStr(secret_string), call \o info)
        ELSE IF ~secret_data.ok
        THEN Res(VStr(S_NotJson \o secret_id \o S_Close),
                 call \o Log(self, "Resolve:SecretsManager", VStr(reference),
                             VStr(M_InvalidJson), "ERROR"))
        ELSE IF IsRaise(has) THEN Res(has, call)
        ELSE IF ~has.b
        THEN Res(VStr(S_KeyError \o json_key.s \o S_NotFoundInSecret \o secret_id
                      \o S_Close),
                 call \o Log(self, "Resolve:SecretsManager", VStr(reference),
                             VStr(M_Key \o json_key.s \o M_NotFound), "ERROR"))
        ELSE Res(Subscript(secret_data.val, json_key), call \o info)

resolve_dynamic_reference(text, self) ==
    LET match == DynRefSearch(text.s)
    IN  IF text.t # "str" THEN Ok(text)
        ELSE IF ~match.found THEN Ok(text)
        ELSE IF match.service = S_SecretsManager
        THEN resolve_secretsmanager(match.reference, self)
        ELSE Ok(text)

-----------------------------------------------------------------------------
(* The intrinsic handlers that resolve no sub-node *)

\* _handle_ref, had it looked the name up among the resources before the context
handle_ref_resource_first(ref_key, self) ==
    IF Unhashable(ref_key) THEN Ok(VRaise("TypeError"))
    ELSE IF ref_key.t = "str" /\ HasKey(self.resources, ref_key.s)
    THEN Ok(VStr(S_Mock \o Lower(ref_key.s) \o S_Id))
    ELSE IF ref_key.t = "str" /\ HasKey(self.context, ref_key.s)
    THEN LET found == Get(self.context, ref_key.s)
         IN  IF found.t = "str" THEN resolve_dynamic_reference(found, self)
             ELSE Ok(found)
    ELSE Ok(VStr(S_RefOpen \o PyStr(ref_key) \o S_Close))

handle_ref(ref_key, self) ==
    IF Unhashable(ref_key) THEN Ok(VRaise("TypeError"))
    ELSE IF ref_key.t = "str" /\ HasKey(self.context, ref_key.s)
    THEN LET found == Get(self.context, ref_key.s)
         IN  IF found.t = "str" THEN resolve_dynamic_reference(found, self)
             ELSE Ok(found)
    ELSE IF ref_key.t = "str" /\ HasKey(self.resources, ref_key.s)
    THEN Ok(VStr(S_Mock \o Lower(ref_key.s) \o S_Id))
    ELSE Ok(VStr(S_RefOpen \o PyStr(ref_key) \o S_Close))

-----------------------------------------------------------------------------
(* resolve() and the handlers that call it back *)

Intrinsics ==
    {K_Ref, K_FindInMap, K_Sub, K_ImportValue, K_Join, K_GetAtt, K_Select, K_Split,
     K_Base64, K_GetAZs, K_Length, K_If, K_Equals, K_Not, K_And, K_Or, K_Condition,
     K_FnCondition}

\* len(v) of a list, a str or a dict
PyLen(v) ==
    CASE v.t = "list" -> Len(v.xs)
      [] v.t = "str" -> Len(v.s)
      [] v.t = "dict" -> Len(v.kv)

\* the exceptions _handle_map's except clause catches
CaughtByMap(v) == IsRaise(v) /\ v.e \in {"KeyError", "TypeError"}

\* re: \${([^!][^}]*)} tried at position i of s: the index of the closing brace, or 0
SubMatchEnd(s, i) ==
    IF /\ StartsWith(s, i, <<"$", "{">>)
       /\ i + 2 <= Len(s)
       /\ s[i + 2] # "!"
    THEN FirstIndex(s, "}", i + 3)
    ELSE 0

RECURSIVE resolve(_, _)
RECURSIVE resolve_entries(_, _)
RECURSIVE resolve_elements(_, _)
RECURSIVE dispatch(_, _, _)
RECURSIVE handle_map(_, _)
RECURSIVE handle_sub(_, _)
RECURSIVE repl(_, _, _, _)
RECURSIVE sub_from(_, _, _, _)
RECURSIVE handle_import(_, _)
RECURSIVE handle_getatt(_, _)
RECURSIVE handle_join(_, _)
RECURSIVE handle_select(_, _)
RECURSIVE handle_split(_, _)
RECURSIVE handle_base64(_, _)
RECURSIVE handle_length(_, _)
RECURSIVE handle_getazs(_, _)
RECURSIVE handle_equals(_, _)
RECURSIVE handle_not(_, _)
RECURSIVE handle_and(_, _)
RECURSIVE all_from(_, _)
RECURSIVE handle_or(_, _)
RECURSIVE any_from(_, _)
RECURSIVE handle_condition(_, _)
RECURSIVE handle_if(_, _)

-----------------------------------------------------------------------------
(* Faulty variants of the handlers: each differs from the handler below it in the
   one point named, and the properties at the end must tell the two apart *)

\* the list branch, had it kept the elements that resolve to None
RECURSIVE resolve_elements_keep(_, _)
resolve_elements_keep(xs, self) ==
    LET r == resolve(xs[1], self)
        rest == resolve_elements_keep(Tail(xs), self)
    IN  IF xs = <<>> THEN Ok(VList(<<>>))
        ELSE IF IsRaise(r.v) THEN r
        ELSE IF IsRaise(rest.v) THEN After(r.tr, rest)
        ELSE Res(VList(<<r.v>> \o rest.v.xs), r.tr \o rest.tr)

\* _handle_if, had it resolved both branches before choosing one
handle_if_eager(args, self) ==
    LET condition_name == Subscript(args, VInt(0))
        value_if_true == Subscript(args, VInt(1))
        value_if_false == Subscript(args, VInt(2))
        known == condition_name.t = "str" /\ HasKey(self.conditions, condition_name.s)
        is_true == IF known THEN resolve(Get(self.conditions, condition_name.s), self)
                   ELSE Ok(VBool(FALSE))
        t == resolve(value_if_true, self)
        f == resolve(value_if_false, self)
    IN  IF IsRaise(condition_name) THEN Ok(condition_name)
        ELSE IF IsRaise(value_if_true) THEN Ok(value_if_true)
        ELSE IF IsRaise(value_if_false) THEN Ok(value_if_false)
        ELSE IF Unhashable(condition_name) THEN Ok(VRaise("TypeError"))
        ELSE IF IsRaise(is_true.v) THEN is_true
        ELSE Res(IF Truthy(is_true.v) THEN t.v ELSE f.v, is_true.tr \o t.tr \o f.tr)

\* repl, had it looked the name up in the context before the local variables
repl_context_first(var, whole, vars_map, self) ==
    LET local == PyContains(vars_map, VStr(var))
        item == Subscript(vars_map, VStr(var))
        in_context == HasKey(self.context, var)
        r == resolve(IF in_context THEN Get(self.context, var) ELSE item, self)
        val == PyStr(r.v)
        mock == S_Mock \o Lower(var) \o S_Id
    IN  IF IsRaise(local) THEN Ok(local)
        ELSE IF ~in_context /\ local.b /\ IsRaise(item) THEN Ok(item)
        ELSE IF in_context \/ local.b
        THEN IF IsRaise(r.v) THEN r
             ELSE Res(VStr(val),
                      r.tr \o Log(self, "Sub", VStr(var), VStr(M_ResolvedTo \o val), "DEBUG"))
        ELSE IF HasKey(self.resources, var)
        THEN Res(VStr(mock),
                 Log(self, "Sub", VStr(var), VStr(M_ResolvedToMock \o mock), "DEBUG"))
        ELSE Ok(VStr(whole))

\* _handle_condition, had it raised for a name the Conditions table lacks
handle_condition_strict(name, self) ==
    IF Unhashable(name) THEN Ok(VRaise("TypeError"))
    ELSE IF name.t = "str" /\ HasKey(self.conditions, name.s)
    THEN resolve(Get(self.conditions, name.s), self)
    ELSE Ok(VRaise("KeyError"))

\* _handle_map with one point changed: "literal" resolves the whole 4th argument
\* even when it carries DefaultValue, "raw" returns the leaf without resolving it
handle_map_variant(args, self, variant) ==
    LET a0 == Subscript(args, VInt(0))
        m_name == resolve(a0, self)
        a1 == Subscript(args, VInt(1))
        top == resolve(a1, self)
        a2 == Subscript(args, VInt(2))
        sec == resolve(a2, self)
        tr3 == m_name.tr \o top.tr \o sec.tr
        key_str == VStr(PyStr(m_name.v) \o S_Dot \o PyStr(top.v) \o S_Dot \o PyStr(sec.v))
        l1 == Subscript(self.mappings, m_name.v)
        l2 == Subscript(l1, top.v)
        val == IF IsRaise(l1) THEN l1 ELSE IF IsRaise(l2) THEN l2 ELSE Subscript(l2, sec.v)
        found == IF variant = "raw" THEN Ok(val) ELSE resolve(val, self)
        default_arg == Subscript(args, VInt(3))
        excepted(tr) ==
            IF PyLen(args) > 3
            THEN IF /\ variant # "literal"
                    /\ default_arg.t = "dict" /\ HasKey(default_arg, K_DefaultValue)
                 THEN After(tr \o Log(self, "FindInMap", key_str, VStr(M_UsedDefault), "WARN"),
                            resolve(Get(default_arg, K_DefaultValue), self))
                 ELSE After(tr \o Log(self, "FindInMap", key_str, VStr(M_UsedDefault), "WARN"),
                            resolve(default_arg, self))
            ELSE Res(VStr(S_MapError \o key_str.s \o S_Close),
                     tr \o Log(self, "FindInMap", key_str, VStr(M_KeyNotFound), "ERROR"))
        logged == tr3 \o Log(self, "FindInMap", key_str, VNone, "INFO")
    IN  IF IsRaise(a0) THEN Ok(a0)
        ELSE IF IsRaise(m_name.v) THEN m_name
        ELSE IF IsRaise(a1) THEN Res(a1, m_name.tr)
        ELSE IF IsRaise(top.v) THEN After(m_name.tr, top)
        ELSE IF IsRaise(a2) THEN Res(a2, m_name.tr \o top.tr)
        ELSE IF IsRaise(sec.v) THEN After(m_name.tr \o top.tr, sec)
        ELSE IF CaughtByMap(val) THEN excepted(tr3)
        ELSE IF IsRaise(val) THEN Res(val, tr3)
        ELSE IF CaughtByMap(found.v) THEN excepted(logged \o found.tr)
        ELSE After(logged, found)
handle_map_literal_default(args, self) == handle_map_variant(args, self, "literal")
handle_map_raw(args, self) == handle_map_variant(args, self, "raw")

\* _handle_select, had it left out the 0 <= idx test: a negative index counts from
\* the end of the list, as list[idx] does
handle_select_wrapping(args, self) ==
    LET a0 == Subscript(args, VInt(0))
        r0 == resolve(a0, self)
        idx == PyInt(r0.v)
        a1 == Subscript(args, VInt(1))
        lst == resolve(a1, self)
    IN  IF IsRaise(a0) THEN Ok(a0)
        ELSE IF IsRaise(r0.v) THEN r0
        ELSE IF IsRaise(idx) THEN Res(idx, r0.tr)
        ELSE IF IsRaise(a1) THEN Res(a1, r0.tr)
        ELSE IF IsRaise(lst.v) THEN After(r0.tr, lst)
        ELSE IF lst.v.t = "list" /\ idx.n < Len(lst.v.xs)
        THEN Res(Subscript(lst.v, idx), r0.tr \o lst.tr)
        ELSE Res(VStr(S_SelectError \o IntStr(idx.n) \o S_OutOfBounds), r0.tr \o lst.tr)

\* _handle_import, had it let a failed listing escape
handle_import_escalating(val, self) ==
    LET import_name == resolve(val, self)
        mock == VStr(S_MockImport \o PyStr(import_name.v))
        call == import_name.tr \o <<EvCall("list_exports", VNone)>>
        exports == self.aws.list_exports
        hits == {i \in 1..Len(exports.Exports) :
                    PyEq(VStr(exports.Exports[i].Name), import_name.v)}
        exp == exports.Exports[CHOOSE i \in hits : \A j \in hits : i <= j]
    IN  IF IsRaise(import_name.v) THEN import_name
        ELSE IF ~HasSession(self) THEN Res(mock, import_name.tr)
        ELSE IF exports.k = "ClientError"
        THEN Res(VRaise("ClientError"), call)
        ELSE IF hits = {} THEN Res(mock, call)
        ELSE Res(VStr(exp.Value),
                 call \o Log(self, "ImportValue", import_name.v, VNone, "INFO"))

-----------------------------------------------------------------------------
(* The handlers *)

handle_map(args, self) ==
    LET a0 == Subscript(args, VInt(0))
        m_name == resolve(a0, self)
        a1 == Subscript(args, VInt(1))
        top == resolve(a1, self)
        a2 == Subscript(args, VInt(2))
        sec == resolve(a2, self)
        tr3 == m_name.tr \o top.tr \o sec.tr
        key_str == VStr(PyStr(m_name.v) \o S_Dot \o PyStr(top.v) \o S_Dot \o PyStr(sec.v))
        l1 == Subscript(self.mappings, m_name.v)
        l2 == Subscript(l1, top.v)
        val == IF IsRaise(l1) THEN l1 ELSE IF IsRaise(l2) THEN l2 ELSE Subscript(l2, sec.v)
        found == resolve(val, self)
        default_arg == Subscript(args, VInt(3))
        excepted(tr) ==
            IF PyLen(args) > 3
            THEN IF default_arg.t = "dict" /\ HasKey(default_arg, K_DefaultValue)
                 THEN After(tr \o Log(self, "FindInMap", key_str, VStr(M_UsedDefault), "WARN"),
                            resolve(Get(default_arg, K_DefaultValue), self))
                 ELSE After(tr \o Log(self, "FindInMap", key_str, VStr(M_UsedDefault), "WARN"),
                            resolve(default_arg, self))
            ELSE Res(VStr(S_MapError \o key_str.s \o S_Close),
                     tr \o Log(self, "FindInMap", key_str, VStr(M_KeyNotFound), "ERROR"))
        logged == tr3 \o Log(self, "FindInMap", key_str, VNone, "INFO")
    IN  IF IsRaise(a0) THEN Ok(a0)
        ELSE IF IsRaise(m_name.v) THEN m_name
        ELSE IF IsRaise(a1) THEN Res(a1, m_name.tr)
        ELSE IF IsRaise(top.v) THEN After(m_name.tr, top)
        ELSE IF IsRaise(a2) THEN Res(a2, m_name.tr \o top.tr)
        ELSE IF IsRaise(sec.v) THEN After(m_name.tr \o top.tr, sec)
        ELSE IF CaughtByMap(val) THEN excepted(tr3)
        ELSE IF IsRaise(val) THEN Res(val, tr3)
        ELSE IF CaughtByMap(found.v) THEN excepted(logged \o found.tr)
        ELSE After(logged, found)

\* repl(match): what replaces the placeholder `whole`, whose name is var
repl(var, whole, vars_map, self) ==
    LET local == PyContains(vars_map, VStr(var))
        item == Subscript(vars_map, VStr(var))
        r == resolve(IF local.b THEN item ELSE Get(self.context, var), self)
        val == PyStr(r.v)
        mock == S_Mock \o Lower(var) \o S_Id
    IN  IF IsRaise(local) THEN Ok(local)
        ELSE IF local.b /\ IsRaise(item) THEN Ok(item)
        ELSE IF local.b \/ HasKey(self.context, var)
        THEN IF IsRaise(r.v) THEN r
             ELSE Res(VStr(val),
                      r.tr \o Log(self, "Sub", VStr(var), VStr(M_ResolvedTo \o val), "DEBUG"))
        ELSE IF HasKey(self.resources, var)
        THEN Res(VStr(mock),
                 Log(self, "Sub", VStr(var), VStr(M_ResolvedToMock \o mock), "DEBUG"))
        ELSE Ok(VStr(whole))

\* re.sub over s from position i on: matches replaced, the other characters kept
sub_from(s, i, vars_map, self) ==
    LET j == SubMatchEnd(s, i)
        rep == repl(SubSeq(s, i + 2, j - 1), SubSeq(s, i, j), vars_map, self)
        rest == sub_from(s, IF j = 0 THEN i + 1 ELSE j + 1, vars_map, self)
    IN  IF i > Len(s) THEN Ok(VStr(<<>>))
        ELSE IF j = 0
        THEN IF IsRaise(rest.v) THEN rest
             ELSE Res(VStr(<<s[i]>> \o rest.v.s), rest.tr)
        ELSE IF IsRaise(rep.v) THEN rep
        ELSE IF IsRaise(rest.v) THEN After(rep.tr, rest)
        ELSE Res(VStr(rep.v.s \o rest.v.s), rep.tr \o rest.tr)

handle_sub(args, self) ==
    LET text == IF args.t = "list" THEN Subscript(args, VInt(0)) ELSE args
        vars_map == IF args.t = "list" THEN Subscript(args, VInt(1)) ELSE VDict(<<>>)
    IN  IF IsRaise(text) THEN Ok(text)
        ELSE IF IsRaise(vars_map) THEN Ok(vars_map)
        ELSE IF text.t # "str" THEN Ok(VRaise("TypeError"))
        ELSE sub_from(text.s, 1, vars_map, self)

handle_import(val, self) ==
    LET import_name == resolve(val, self)
        mock == VStr(S_MockImport \o PyStr(import_name.v))
        call == import_name.tr \o <<EvCall("list_exports", VNone)>>
        exports == self.aws.list_exports
        hits == {i \in 1..Len(exports.Exports) :
                    PyEq(VStr(exports.Exports[i].Name), import_name.v)}
        exp == exports.Exports[CHOOSE i \in hits : \A j \in hits : i <= j]
    IN  IF IsRaise(import_name.v) THEN import_name
        ELSE IF ~HasSession(self) THEN Res(mock, import_name.tr)
        ELSE IF exports.k = "ClientError"
        THEN Res(mock, call \o Log(self, "ImportValue", import_name.v,
                                   VStr(exports.message), "ERROR"))
        ELSE IF hits = {} THEN Res(mock, call)
        ELSE Res(VStr(exp.Value),
                 call \o Log(self, "ImportValue", import_name.v, VNone, "INFO"))

handle_getatt(args0, self) ==
    LET args == IF args0.t = "str"
                THEN VList([i \in 1..Len(StrSplit(args0.s, S_Dot)) |->
                               VStr(StrSplit(args0.s, S_Dot)[i])])
                ELSE args0
        a0 == Subscript(args, VInt(0))
        res == resolve(a0, self)
        a1 == Subscript(args, VInt(1))
        attr == resolve(a1, self)
    IN  IF IsRaise(a0) THEN Ok(a0)
        ELSE IF IsRaise(res.v) THEN res
        ELSE IF IsRaise(a1) THEN Res(a1, res.tr)
        ELSE IF IsRaise(attr.v) THEN After(res.tr, attr)
        ELSE Res(VStr(Lower(S_Mock \o PyStr(res.v) \o S_Dash \o PyStr(attr.v))),
                 res.tr \o attr.tr)

handle_join(args, self) ==
    LET delimiter == Subscript(args, VInt(0))
        a1 == Subscript(args, VInt(1))
        values == resolve(a1, self)
        items == Items(values.v)
    IN  IF IsRaise(delimiter) THEN Ok(delimiter)
        ELSE IF IsRaise(a1) THEN Ok(a1)
        ELSE IF IsRaise(values.v) THEN values
        ELSE IF delimiter.t # "str" THEN Res(VRaise("AttributeError"), values.tr)
        ELSE IF ~IsIterable(values.v) THEN Res(VRaise("TypeError"), values.tr)
        ELSE Res(VStr(JoinStrs(delimiter.s, [i \in 1..Len(items) |-> PyStr(items[i])])),
                 values.tr)

handle_select(args, self) ==
    LET a0 == Subscript(args, VInt(0))
        r0 == resolve(a0, self)
        idx == PyInt(r0.v)
        a1 == Subscript(args, VInt(1))
        lst == resolve(a1, self)
    IN  IF IsRaise(a0) THEN Ok(a0)
        ELSE IF IsRaise(r0.v) THEN r0
        ELSE IF IsRaise(idx) THEN Res(idx, r0.tr)
        ELSE IF IsRaise(a1) THEN Res(a1, r0.tr)
        ELSE IF IsRaise(lst.v) THEN After(r0.tr, lst)
        ELSE IF lst.v.t = "list" /\ 0 <= idx.n /\ idx.n < Len(lst.v.xs)
        THEN Res(lst.v.xs[idx.n + 1], r0.tr \o lst.tr)
        ELSE Res(VStr(S_SelectError \o IntStr(idx.n) \o S_OutOfBounds), r0.tr \o lst.tr)

handle_split(args, self) ==
    LET a0 == Subscript(args, VInt(0))
        delim == resolve(a0, self)
        a1 == Subscript(args, VInt(1))
        string == resolve(a1, self)
        parts == IF delim.v.t = "none" THEN SplitBlank(string.v.s, <<>>)
                 ELSE StrSplit(string.v.s, delim.v.s)
    IN  IF IsRaise(a0) THEN Ok(a0)
        ELSE IF IsRaise(delim.v) THEN delim
        ELSE IF IsRaise(a1) THEN Res(a1, delim.tr)
        ELSE IF IsRaise(string.v) THEN After(delim.tr, string)
        ELSE IF string.v.t # "str" THEN Res(VRaise("AttributeError"), delim.tr \o string.tr)
        ELSE IF delim.v.t \notin {"str", "none"}
        THEN Res(VRaise("TypeError"), delim.tr \o string.tr)
        ELSE IF delim.v.t = "str" /\ delim.v.s = <<>>
        THEN Res(VRaise("ValueError"), delim.tr \o string.tr)
        ELSE Res(VList([i \in 1..Len(parts) |-> VStr(parts[i])]), delim.tr \o string.tr)

handle_base64(val, self) ==
    LET resolved_ == resolve(val, self)
    IN  IF IsRaise(resolved_.v) THEN resolved_
        ELSE Res(VStr(S_Base64Open \o PyStr(resolved_.v) \o S_Base64Close), resolved_.tr)

handle_length(val, self) ==
    LET item == resolve(val, self)
    IN  IF IsRaise(item.v) THEN item
        ELSE Res(VInt(IF item.v.t = "list" THEN Len(item.v.xs) ELSE 0), item.tr)

handle_getazs(val, self) ==
    LET r == resolve(val, self)
        region == PyStr(IF Truthy(r.v) THEN r.v ELSE Subscript(self.context, VStr(K_Region)))
    IN  IF IsRaise(r.v) THEN r
        ELSE IF ~Truthy(r.v) /\ IsRaise(Subscript(self.context, VStr(K_Region)))
        THEN Res(Subscript(self.context, VStr(K_Region)), r.tr)
        ELSE Res(VList(<<VStr(region \o <<"a">>), VStr(region \o <<"b">>),
                         VStr(region \o <<"c">>)>>), r.tr)

-----------------------------------------------------------------------------
(* The logic handlers *)

handle_equals(args, self) ==
    LET a0 == Subscript(args, VInt(0))
        left == resolve(a0, self)
        a1 == Subscript(args, VInt(1))
        right == resolve(a1, self)
    IN  IF IsRaise(a0) THEN Ok(a0)
        ELSE IF IsRaise(left.v) THEN left
        ELSE IF IsRaise(a1) THEN Res(a1, left.tr)
        ELSE IF IsRaise(right.v) THEN After(left.tr, right)
        ELSE Res(VBool(PyEq(left.v, right.v)), left.tr \o right.tr)

handle_not(args, self) ==
    LET condition == IF args.t = "list" THEN Subscript(args, VInt(0)) ELSE args
        r == resolve(condition, self)
    IN  IF IsRaise(condition) THEN Ok(condition)
        ELSE IF IsRaise(r.v) THEN r
        ELSE Res(VBool(~Truthy(r.v)), r.tr)

\* all(self.resolve(arg) for arg in xs): stops at the first falsy operand
all_from(xs, self) ==
    LET r == resolve(xs[1], self)
    IN  IF xs = <<>> THEN Ok(VBool(TRUE))
        ELSE IF IsRaise(r.v) THEN r
        ELSE IF ~Truthy(r.v) THEN Res(VBool(FALSE), r.tr)
        ELSE After(r.tr, all_from(Tail(xs), self))

handle_and(args, self) ==
    IF ~IsIterable(args) THEN Ok(VRaise("TypeError"))
    ELSE all_from(Items(args), self)

\* any(self.resolve(arg) for arg in xs): stops at the first truthy operand
any_from(xs, self) ==
    LET r == resolve(xs[1], self)
    IN  IF xs = <<>> THEN Ok(VBool(FALSE))
        ELSE IF IsRaise(r.v) THEN r
        ELSE IF Truthy(r.v) THEN Res(VBool(TRUE), r.tr)
        ELSE After(r.tr, any_from(Tail(xs), self))

handle_or(args, self) ==
    IF ~IsIterable(args) THEN Ok(VRaise("TypeError"))
    ELSE any_from(Items(args), self)

handle_condition(name, self) ==
    IF Unhashable(name) THEN Ok(VRaise("TypeError"))
    ELSE IF name.t = "str" /\ HasKey(self.conditions, name.s)
    THEN resolve(Get(self.conditions, name.s), self)
    ELSE Ok(VBool(FALSE))

handle_if(args, self) ==
    LET condition_name == Subscript(args, VInt(0))
        value_if_true == Subscript(args, VInt(1))
        value_if_false == Subscript(args, VInt(2))
        known == condition_name.t = "str" /\ HasKey(self.conditions, condition_name.s)
        is_true == IF known THEN resolve(Get(self.conditions, condition_name.s), self)
                   ELSE Ok(VBool(FALSE))
        result_node == IF Truthy(is_true.v) THEN value_if_true ELSE value_if_false
    IN  IF IsRaise(condition_name) THEN Ok(condition_name)
        ELSE IF IsRaise(value_if_true) THEN Ok(value_if_true)
        ELSE IF IsRaise(value_if_false) THEN Ok(value_if_false)
        ELSE IF Unhashable(condition_name) THEN Ok(VRaise("TypeError"))
        ELSE IF IsRaise(is_true.v) THEN is_true
        ELSE After(is_true.tr, resolve(result_node, self))

-----------------------------------------------------------------------------
(* resolve() *)

dispatch(key, val, self) ==
    CASE key = K_Ref -> handle_ref(val, self)
      [] key = K_FindInMap -> handle_map(val, self)
      [] key = K_Sub -> handle_sub(val, self)
      [] key = K_ImportValue -> handle_import(val, self)
      [] key = K_Join -> handle_join(val, self)
      [] key = K_GetAtt -> handle_getatt(val, self)
      [] key = K_Select -> handle_select(val, self)
      [] key = K_Split -> handle_split(val, self)
      [] key = K_Base64 -> handle_base64(val, self)
      [] key = K_GetAZs -> handle_getazs(val, self)
      [] key = K_Length -> handle_length(val, self)
      [] key = K_If -> handle_if(val, self)
      [] key = K_Equals -> handle_equals(val, self)
      [] key = K_Not -> handle_not(val, self)
      [] key = K_And -> handle_and(val, self)
      [] key = K_Or -> handle_or(val, self)
      [] key = K_Condition -> handle_condition(val, self)
      [] key = K_FnCondition -> handle_condition(val, self)

\* the dict branch: every value resolved, the entries that resolve to None left out
resolve_entries(kv, self) ==
    LET resolved_v == resolve(kv[1][2], self)
        rest == resolve_entries(Tail(kv), self)
    IN  IF kv = <<>> THEN Ok(VDict(<<>>))
        ELSE IF IsRaise(resolved_v.v) THEN resolved_v
        ELSE IF IsRaise(rest.v) THEN After(resolved_v.tr, rest)
        ELSE Res(VDict((IF resolved_v.v # VNone THEN << <<kv[1][1], resolved_v.v>> >>
                        ELSE <<>>) \o rest.v.kv),
                 resolved_v.tr \o rest.tr)

\* the list branch: every element resolved, those that resolve to None left out
resolve_elements(xs, self) ==
    LET r == resolve(xs[1], self)
        rest == resolve_elements(Tail(xs), self)
    IN  IF xs = <<>> THEN Ok(VList(<<>>))
        ELSE IF IsRaise(r.v) THEN r
        ELSE IF IsRaise(rest.v) THEN After(r.tr, rest)
        ELSE Res(VList((IF r.v # VNone THEN <<r.v>> ELSE <<>>) \o rest.v.xs),
                 r.tr \o rest.tr)

\* whether resolve() hands the node to a handler
IsIntrinsicCall(n) == n.t = "dict" /\ Len(n.kv) = 1 /\ n.kv[1][1] \in Intrinsics

resolve(n, self) ==
    After(<<EvResolve(n)>>,
          CASE IsIntrinsicCall(n) -> dispatch(n.kv[1][1], n.kv[1][2], self)
            [] n.t = "dict" /\ ~IsIntrinsicCall(n) -> resolve_entries(n.kv, self)
            [] n.t = "list" -> resolve_elements(n.xs, self)
            [] n.t = "str" -> resolve_dynamic_reference(n, self)
            [] OTHER -> Ok(n))

-----------------------------------------------------------------------------
(* The environment-config file *)

\* d.get(k, default)
PyGet(d, k, default) ==
    IF d.t # "dict" THEN VRaise("AttributeError")
    ELSE IF HasKey(d, k) THEN Get(d, k)
    ELSE default

\* re: [a-zA-Z0-9\-_]
IsKeyChar(c) ==
    \/ IsDigit(c)
    \/ \E i \in 1..26 : c = UpperAlpha[i] \/ c = LowerAlpha[i]
    \/ c \in {"-", "_"}

NoOverride == [found |-> FALSE]

\* re: ([a-zA-Z0-9\-_]+)=(?:\"([^\"]*)\"|([^\s\"]+)) tried at position i of s
OverrideAt(s, i) ==
    LET stops == {j \in i..Len(s) : ~IsKeyChar(s[j])}
        eq == IF stops = {} THEN 0 ELSE CHOOSE j \in stops : \A k \in stops : j <= k
        v == eq + 1
        quote == FirstIndex(s, "\"", v + 1)
        ends == {j \in v..Len(s) : s[j] \in {" ", "\""}}
        last == IF ends = {} THEN Len(s)
                ELSE (CHOOSE j \in ends : \A k \in ends : j <= k) - 1
    IN  IF eq <= i \/ s[eq] # "=" \/ v > Len(s) THEN NoOverride
        ELSE IF s[v] = "\"" /\ quote # 0
        THEN [found |-> TRUE, key |-> SubSeq(s, i, eq - 1),
              value |-> SubSeq(s, v + 1, quote - 1), end |-> quote]
        ELSE IF last >= v
        THEN [found |-> TRUE, key |-> SubSeq(s, i, eq - 1),
              value |-> SubSeq(s, v, last), end |-> last]
        ELSE NoOverride

\* {m[0]: m[1] or m[2] for m in pattern.findall(s)}, from position i on
RECURSIVE overrides_from(_, _, _)
overrides_from(s, i, acc) ==
    LET m == OverrideAt(s, i)
    IN  IF i > Len(s) THEN acc
        ELSE IF m.found THEN overrides_from(s, m.end + 1, Put(acc, m.key, VStr(m.value)))
        ELSE overrides_from(s, i + 1, acc)

parse_sam_overrides(override_string) ==
    IF ~Truthy(override_string) THEN VDict(<<>>)
    ELSE IF override_string.t # "str" THEN VRaise("TypeError")
    ELSE overrides_from(override_string.s, 1, VDict(<<>>))

\* load_sam_config, had it let the failure to read the file escape
load_sam_config_strict(cfg, environment) ==
    LET section == PyGet(cfg.data, environment, VDict(<<>>))
        deploy == PyGet(section, K_deploy, VDict(<<>>))
        params == PyGet(deploy, K_parameters, VDict(<<>>))
        overrides_str == PyGet(params, K_parameter_overrides, VStr(<<>>))
        config_values == parse_sam_overrides(overrides_str)
    IN  IF cfg.k # "toml" THEN VRaise("FileNotFoundError")
        ELSE IF IsRaise(section) \/ IsRaise(deploy) \/ IsRaise(params) THEN VDict(<<>>)
        ELSE IF IsRaise(config_values) THEN VDict(<<>>)
        ELSE IF HasKey(params, K_region)
        THEN Put(config_values, K_Region, Get(params, K_region))
        ELSE config_values

\* config is the file: missing, not TOML, or the parsed TOML document
load_sam_config(cfg, environment) ==
    LET section == PyGet(cfg.data, environment, VDict(<<>>))
        deploy == PyGet(section, K_deploy, VDict(<<>>))
        params == PyGet(deploy, K_parameters, VDict(<<>>))
        overrides_str == PyGet(params, K_parameter_overrides, VStr(<<>>))
        config_values == parse_sam_overrides(overrides_str)
    IN  IF cfg.k # "toml" THEN VDict(<<>>)
        ELSE IF IsRaise(section) \/ IsRaise(deploy) \/ IsRaise(params) THEN VDict(<<>>)
        ELSE IF IsRaise(config_values) THEN VDict(<<>>)
        ELSE IF HasKey(params, K_region)
        THEN Put(config_values, K_Region, Get(params, K_region))
        ELSE config_values

-----------------------------------------------------------------------------
(* The constructor *)

\* self.context as __init__ first assigns it
PseudoParameters(region) ==
    VDict(<< <<K_Region, region>>,
             <<K_AccountId, VStr(S_AccountId)>>,
             <<K_StackName, VStr(S_StackName)>>,
             <<K_Partition, VStr(S_Partition)>>,
             <<K_URLSuffix, VStr(S_URLSuffix)>>,
             <<K_NoValue, VNone>> >>)

\* the loop over Parameters: context[name] = p["Default"] where p declares one
RECURSIVE seed_defaults(_, _)
seed_defaults(kv, ctx) ==
    LET p == kv[1][2]
        has == PyContains(p, VStr(K_Default))
        default == Subscript(p, VStr(K_Default))
    IN  IF kv = <<>> THEN ctx
        ELSE IF IsRaise(has) THEN has
        ELSE IF ~has.b THEN seed_defaults(Tail(kv), ctx)
        ELSE IF IsRaise(default) THEN default
        ELSE seed_defaults(Tail(kv), Put(ctx, kv[1][1], default))

\* self.context at the end of __init__ (VRaise when the loop raises)
init_context(t, region) ==
    seed_defaults(PyGet(t, K_Parameters, VDict(<<>>)).kv, PseudoParameters(region))

-----------------------------------------------------------------------------
(* Bounded inputs: the strings the templates, config files and nodes are made of *)

N_Env == <<"E","n","v">>  \* Env
N_dev == <<"d","e","v">>  \* dev
N_prod == <<"p","r","o","d">>  \* prod
N_stag == <<"s","t","a","g">>  \* stag
N_Pw == <<"P","w">>  \* Pw
N_Nd == <<"N","d">>  \* Nd
N_Both == <<"B","o","t","h">>  \* Both
N_Lst == <<"L","s","t">>  \* Lst
N_Bkt == <<"B","k","t">>  \* Bkt
N_Fun == <<"F","u","n">>  \* Fun
N_Gone == <<"G","o","n","e">>  \* Gone
N_M == <<"R","e","g","i","o","n","M","a","p">>  \* RegionMap
N_K == <<"K">>  \* K
N_R == <<"R">>  \* R
N_S == <<"S">>  \* S
N_N == <<"N">>  \* N
N_T == <<"T">>  \* T
N_I == <<"I">>  \* I
N_Zz == <<"Z","z">>  \* Zz
N_IsProd == <<"I","s","P","r","o","d">>  \* IsProd
N_IsDev == <<"I","s","D","e","v">>  \* IsDev
N_Bad == <<"B","a","d">>  \* Bad
N_v1 == <<"a","m","i","-","1">>  \* ami-1
N_v2 == <<"a","m","i","-","2">>  \* ami-2
N_ctx == <<"c","t","x">>  \* ctx
N_loc == <<"l","o","c">>  \* loc
N_mine == <<"m","i","n","e">>  \* mine
N_String == <<"S","t","r","i","n","g">>  \* String
N_T1 == <<"A","W","S",":",":","S","3",":",":","B","u","c","k","e","t">>  \* AWS::S3::Bucket
N_T2 == <<"A","W","S",":",":","L","a","m","b","d","a",":",":","F","u","n","c","t","i","o","n">>  \* AWS::Lambda::Function
N_Properties == <<"P","r","o","p","e","r","t","i","e","s">>  \* Properties
N_Name == <<"N","a","m","e">>  \* Name
N_Opt == <<"O","p","t">>  \* Opt
N_Ami == <<"A","m","i">>  \* Ami
N_Imp == <<"I","m","p">>  \* Imp
N_vpc == <<"v","p","c">>  \* vpc
N_vpc1 == <<"v","p","c","-","1">>  \* vpc-1
N_default == <<"d","e","f","a","u","l","t">>  \* default
N_eu == <<"e","u","-","w","e","s","t","-","1">>  \* eu-west-1
N_Overrides == <<"E","n","v","=","\"","p","r","o","d","\""," ","N","d","=","x">>  \* Env="prod" Nd=x
N_OverridesStag == <<"E","n","v","=","s","t","a","g">>  \* Env=stag
N_p == <<"p">>  \* p
N_x == <<"x">>  \* x
N_a == <<"a">>  \* a
N_b == <<"b">>  \* b
N_c == <<"c">>  \* c
N_abc == <<"a",",","b",",","c">>  \* a,b,c
N_comma == <<",">>  \* ,
N_one == <<"1">>  \* 1
N_Attr == <<"A","r","n">>  \* Arn
D_SM == <<"{","{","r","e","s","o","l","v","e",":","s","e","c","r","e","t","s","m","a","n","a","g","e","r",":","d","b","}","}">>  \* {{resolve:secretsmanager:db}}
D_SMK == <<"{","{","r","e","s","o","l","v","e",":","s","e","c","r","e","t","s","m","a","n","a","g","e","r",":","d","b",":","k","}","}">>  \* {{resolve:secretsmanager:db:k}}
D_SSM == <<"{","{","r","e","s","o","l","v","e",":","s","s","m",":","p","}","}">>  \* {{resolve:ssm:p}}
D_SMV == <<"{","{","r","e","s","o","l","v","e",":","s","e","c","r","e","t","s","m","a","n","a","g","e","r",":","d","b",":","z","z",":","A","W","S","C","U","R","R","E","N","T","}","}">>  \* {{resolve:secretsmanager:db:zz:AWSCURRENT}}
D_Emb == <<"x","{","{","r","e","s","o","l","v","e",":","s","e","c","r","e","t","s","m","a","n","a","g","e","r",":","d","b","}","}","y">>  \* x{{resolve:secretsmanager:db}}y
D_Two == <<"{","{","r","e","s","o","l","v","e",":","s","s","m",":","p","}","}","{","{","r","e","s","o","l","v","e",":","s","e","c","r","e","t","s","m","a","n","a","g","e","r",":","d","b","}","}">>  \* {{resolve:ssm:p}}{{resolve:secretsmanager:db}}
J_Obj == <<"{","\"","k","\"",":"," ","\"","v","\"","}">>  \* {"k": "v"}
J_Plain == <<"p","w">>  \* pw
J_Err == <<"d","e","n","i","e","d">>  \* denied
J_Num == <<"5">>  \* 5
J_Bin == <<"x","y">>  \* xy
N_Same == <<"S","a","m","e">>  \* Same
N_Ping == <<"P","i","n","g">>  \* Ping
N_Pong == <<"P","o","n","g">>  \* Pong
N_NotDev == <<"N","o","t","D","e","v">>  \* NotDev
N_Deep == <<"D","e","e","p">>  \* Deep
N_Via == <<"V","i","a">>  \* Via
N_Loop == <<"L","o","o","p">>  \* Loop
N_Hop == <<"H","o","p">>  \* Hop
N_Cross == <<"C","r","o","s","s">>  \* Cross
N_Rec == <<"R","e","c">>  \* Rec
N_Y == <<"Y">>  \* Y
N_Z == <<"Z">>  \* Z
N_z == <<"z">>  \* z

\* the widest sequence of Fn::Sub pieces, and the largest Fn::Select index, tried
MaxPieces == 2
MaxIndex == 3

\* node constructors
D1(k, v) == VDict(<< <<k, v>> >>)
Ref(name) == D1(K_Ref, VStr(name))
Call(fn, args) == D1(fn, VList(args))
S(s) == VStr(s)

TemplateA ==
    VDict(<<
      <<K_Parameters, VDict(<<
          <<N_Env, VDict(<< <<K_Type, S(N_String)>>, <<K_Default, S(N_dev)>> >>)>>,
          <<N_Pw, D1(K_Default, S(D_SMK))>>,
          <<N_Nd, D1(K_Type, S(N_String))>> >>)>>,
      <<K_Mappings, D1(N_M, D1(N_dev, VDict(<<
          <<N_K, S(N_v1)>>, <<N_R, S(D_SM)>>, <<N_S, S(D_SSM)>>, <<N_N, VInt(7)>>,
          <<N_T, VBool(TRUE)>>, <<N_I, Ref(N_Env)>> >>)))>>,
      <<K_Conditions, VDict(<<
          <<N_IsProd, Call(K_Equals, <<Ref(N_Env), S(N_prod)>>)>>,
          <<N_IsDev, Call(K_Not, <<D1(K_Condition, S(N_IsProd))>>)>> >>)>>,
      <<K_Resources, VDict(<<
          <<N_Bkt, VDict(<<
              <<K_Type, S(N_T1)>>,
              <<N_Properties, VDict(<<
                  <<N_Name, Ref(N_Bkt)>>,
                  <<N_Opt, Call(K_If, <<S(N_IsProd), S(N_x), Ref(K_NoValue)>>)>>,
                  <<N_Ami, Call(K_FindInMap, <<S(N_M), Ref(N_Env), S(N_K)>>)>> >>)>> >>)>>,
          <<N_Fun, VDict(<<
              <<K_Type, S(N_T2)>>,
              <<N_Properties, D1(N_Imp, D1(K_ImportValue, S(N_vpc)))>> >>)>> >>)>>
    >>)

\* parameters named like pseudo-parameters, a parameter named like a resource, a
\* structured default, a condition whose expression is malformed
TemplateB ==
    VDict(<<
      <<K_Parameters, VDict(<<
          <<N_Env, D1(K_Default, S(N_prod))>>,
          <<K_Partition, D1(K_Type, S(N_String))>>,
          <<K_StackName, D1(K_Default, S(N_mine))>>,
          <<N_Both, D1(K_Default, S(N_ctx))>>,
          <<N_Lst, D1(K_Default, VList(<<VNone, S(N_a)>>))>> >>)>>,
      <<K_Mappings, D1(N_M, D1(N_prod, D1(N_K, S(N_v2))))>>,
      <<K_Conditions, VDict(<<
          <<N_IsProd, Call(K_Equals, <<Ref(N_Env), S(N_prod)>>)>>,
          <<N_Bad, Call(K_Select, <<S(N_x), VList(<<>>)>>)>> >>)>>,
      <<K_Resources, VDict(<<
          <<N_Both, D1(K_Type, S(N_T1))>>,
          <<N_Gone, Ref(K_NoValue)>>,
          <<N_Bkt, S(N_x)>> >>)>>
    >>)

\* a template with a Resources section only
TemplateC ==
    D1(K_Resources, D1(N_Bkt, D1(K_Type, S(N_T1))))

Templates == {TemplateA, TemplateB, TemplateC}

ConfigMissing == [k |-> "missing"]
ConfigMalformed == [k |-> "malformed"]
ConfigToml ==
    [k |-> "toml",
     data |-> VDict(<<
        <<N_default, D1(K_deploy, D1(K_parameters, VDict(<<
            <<K_parameter_overrides, S(N_Overrides)>>, <<K_region, S(N_eu)>> >>)))>>,
        <<N_stag, D1(K_deploy, D1(K_parameters,
            D1(K_parameter_overrides, S(N_OverridesStag))))>> >>)]
Configs == {ConfigMissing, ConfigMalformed, ConfigToml}

\* what the provider can answer to list_exports and to get_secret_value
Worlds ==
    { [list_exports |-> [k |-> "ok", Exports |-> <<[Name |-> N_vpc, Value |-> N_vpc1]>>],
       get_secret_value |-> [k |-> "string", SecretString |-> J_Obj]],
      [list_exports |-> [k |-> "ClientError", message |-> J_Err],
       get_secret_value |-> [k |-> "ClientError", message |-> J_Err]],
      [list_exports |-> [k |-> "ok", Exports |-> <<>>],
       get_secret_value |-> [k |-> "string", SecretString |-> J_Plain]],
      [list_exports |-> [k |-> "ok", Exports |-> <<>>],
       get_secret_value |-> [k |-> "string", SecretString |-> J_Num]],
      [list_exports |-> [k |-> "ClientError", message |-> J_Err],
       get_secret_value |-> [k |-> "binary", SecretBinary |-> J_Bin]] }
NoWorld ==
    [list_exports |-> [k |-> "ClientError", message |-> J_Err],
     get_secret_value |-> [k |-> "ClientError", message |-> J_Err]]

\* process(config, env, template, profile, log_level) as the runs call it
Runs ==
    {[template |-> TemplateA, config |-> c, env |-> N_default, profile |-> VNone,
      level |-> "WARN"] : c \in Configs}
    \cup {[template |-> t, config |-> c, env |-> N_default, profile |-> VNone,
           level |-> "WARN"] : t \in {TemplateB, TemplateC}, c \in {ConfigMissing, ConfigToml}}
    \cup {[template |-> TemplateA, config |-> ConfigToml, env |-> N_stag,
           profile |-> VNone, level |-> "DEBUG"],
          [template |-> TemplateA, config |-> ConfigMissing, env |-> N_default,
           profile |-> S(N_p), level |-> "INFO"],
          [template |-> TemplateB, config |-> ConfigToml, env |-> N_default,
           profile |-> S(N_p), level |-> "WARN"]}

-----------------------------------------------------------------------------
(* The YAML tag constructor *)

S_GetAtt == <<"G", "e", "t", "A", "t", "t">>  \* GetAtt
S_FnPrefix == <<"F", "n", ":", ":">>  \* Fn::

\* the node the YAML loader hands over: a scalar (its text), a sequence or a
\* mapping (their constructed content)
ScalarNode(s) == [kind |-> "scalar", value |-> s]
SequenceNode(xs) == [kind |-> "sequence", value |-> xs]
MappingNode(kv) == [kind |-> "mapping", value |-> kv]

\* multi_constructor(loader, tag_suffix, node): !Tag payload as a one-key mapping
multi_constructor(tag_suffix, ynode) ==
    LET parts == StrSplit(ynode.value, S_Dot)
    IN  IF tag_suffix = S_GetAtt
        THEN IF ynode.kind = "sequence" THEN D1(K_GetAtt, VList(ynode.value))
             ELSE IF ynode.kind = "scalar"
             THEN D1(K_GetAtt, VList([i \in 1..Len(parts) |-> VStr(parts[i])]))
             ELSE VRaise("ConstructorError")
        ELSE IF ynode.kind = "scalar"
        THEN D1(IF tag_suffix = K_Ref THEN K_Ref ELSE S_FnPrefix \o tag_suffix,
                VStr(ynode.value))
        ELSE IF ynode.kind = "sequence"
        THEN D1(S_FnPrefix \o tag_suffix, VList(ynode.value))
        ELSE D1(S_FnPrefix \o tag_suffix, VDict(ynode.value))

\* the nodes a caller hands to resolve()
RefNodes ==
    {Ref(n) : n \in {N_Env, N_Pw, N_Nd, N_Both, N_Lst, N_Bkt, N_Zz, K_Region, K_Partition,
                     K_NoValue}}
    \cup {D1(K_Ref, VInt(5)), D1(K_Ref, VList(<<>>))}

ContainerNodes ==
    { VDict(<< <<N_K, S(N_v1)>>, <<N_R, Ref(K_NoValue)>> >>),
      VDict(<< <<K_Ref, S(K_NoValue)>>, <<N_K, VNone>>, <<N_R, VInt(0)>> >>),
      VList(<<Ref(K_NoValue), S(N_a),
              Call(K_If, <<S(N_IsProd), S(N_x), Ref(K_NoValue)>>)>>),
      D1(N_K, Call(K_FindInMap, <<S(N_Zz), S(N_a), S(N_b), Ref(K_NoValue)>>)),
      VList(<<Call(K_Select, <<VInt(0), VList(<<VNone, Ref(K_NoValue)>>)>>), VNone>>),
      VList(<<Ref(N_Lst), S(D_SMK)>>),
      VList(<<D1(K_ImportValue, S(N_vpc)), S(D_SM), S(N_a)>>),
      VList(<<Call(K_Select, <<VInt(0), Ref(N_Lst)>>), S(N_a)>>),
      D1(N_K, Ref(N_Lst)),
      VDict(<<>>), VList(<<>>), VList(<<VList(<<VNone>>)>>) }

MalformedNodes ==
    { Call(K_Select, <<S(N_x), VList(<<S(N_a)>>)>>),
      Call(K_Select, <<VNone, VList(<<S(N_a)>>)>>),
      Call(K_If, <<S(N_IsProd), S(N_a)>>),
      Call(K_FindInMap, <<S(N_M), S(N_dev)>>),
      Call(K_Join, <<S(N_comma)>>),
      Call(K_Join, <<S(N_comma), VInt(5)>>),
      Call(K_Join, <<VInt(5), VList(<<S(N_a)>>)>>),
      Call(K_Split, <<S(N_comma)>>),
      Call(K_Split, <<S(N_comma), VInt(5)>>),
      Call(K_Split, <<S(<<>>), S(N_abc)>>),
      Call(K_Equals, <<S(N_a)>>),
      D1(K_Sub, VInt(5)),
      D1(K_GetAtt, S(N_Bkt)),
      D1(K_And, VInt(1)),
      VDict(<< <<N_K, Call(K_Equals, <<S(N_a)>>)>>, <<N_R, S(N_b)>> >>),
      VList(<<S(N_a), Call(K_Select, <<S(N_x), VList(<<S(N_a)>>)>>), S(N_b)>>) }

ConditionNames == {N_IsProd, N_IsDev, N_Bad, N_Zz}
\* a branch that logs a diagnostic and a branch that calls the provider
MissBranch == Call(K_FindInMap, <<S(N_Zz), S(N_a), S(N_b)>>)
ImportBranch == D1(K_ImportValue, S(N_vpc))
IfNodes ==
    UNION {{Call(K_If, <<S(c), MissBranch, ImportBranch>>),
            Call(K_If, <<S(c), ImportBranch, MissBranch>>),
            Call(K_If, <<S(c), S(N_a), S(D_SM)>>),
            Call(K_If, <<S(c), S(N_a), S(N_b), S(N_c)>>)} : c \in ConditionNames}
    \cup {Call(K_If, <<VInt(1), S(N_a), S(N_b)>>)}
ConditionNodes ==
    UNION {{D1(K_Condition, S(c)), D1(K_FnCondition, S(c))} : c \in ConditionNames}
    \cup {D1(K_Condition, VInt(1))}

MapKeys == {N_K, N_R, N_S, N_N, N_T, N_I, N_Zz}
MapDefaults ==
    {VInt(99), Ref(N_Env), D1(K_DefaultValue, VInt(10)),
     VDict(<< <<N_K, VInt(1)>>, <<K_DefaultValue, Ref(N_Env)>> >>),
     D1(N_K, VInt(1))}
MapNodes ==
    {Call(K_FindInMap, <<m, t, S(k)>>) :
        m \in {S(N_M), S(N_Zz)}, t \in {S(N_dev), Ref(N_Env)}, k \in MapKeys}
    \cup {Call(K_FindInMap, <<m, S(N_dev), k, d>>) :
            m \in {S(N_M), VList(<<S(N_M)>>)}, k \in {S(N_Zz), S(N_K), VInt(1)},
            d \in MapDefaults}
    \cup {Call(K_FindInMap, <<VList(<<S(N_M)>>), S(N_dev), S(N_K)>>),
          Call(K_FindInMap, <<S(N_M), VInt(1), VNone>>),
          Call(K_FindInMap, <<S(N_M), S(N_dev), S(N_K), MissBranch>>)}

SelectLists ==
    {VList(<<S(N_a), Ref(K_NoValue), S(N_b)>>), S(N_abc),
     Call(K_Split, <<S(N_comma), S(N_abc)>>), Ref(N_Lst)}
SelectNodes ==
    {Call(K_Select, <<i, l>>) :
        i \in {VInt(n) : n \in -1..MaxIndex} \cup {S(IntStr(n)) : n \in -1..MaxIndex}
              \cup {VBool(TRUE), S(<<" ", "1", " ">>)},
        l \in SelectLists}

\* Fn::Sub templates: every sequence of at most MaxPieces pieces
PieceKinds == {"lit", "ctx", "esc", "res", "unk"}
Placeholder(name) == <<"$", "{">> \o name \o <<"}">>
PieceText(k) ==
    CASE k = "lit" -> <<"x", "-">>
      [] k = "ctx" -> Placeholder(N_Env)
      [] k = "esc" -> Placeholder(<<"!">> \o N_Env)
      [] k = "res" -> Placeholder(N_Bkt)
      [] k = "unk" -> Placeholder(N_Zz)
PieceSeqs == UNION {[1..n -> PieceKinds] : n \in 1..MaxPieces}
RECURSIVE TextOf(_)
TextOf(ps) == IF ps = <<>> THEN <<>> ELSE PieceText(ps[1]) \o TextOf(Tail(ps))
SubLocals == VDict(<< <<N_Env, S(N_loc)>>, <<N_Bkt, Ref(N_Zz)>> >>)
BareSub(ps) == D1(K_Sub, S(TextOf(ps)))
LocalSub(ps) == Call(K_Sub, <<S(TextOf(ps)), SubLocals>>)
SubNodes ==
    {BareSub(ps) : ps \in PieceSeqs} \cup {LocalSub(ps) : ps \in PieceSeqs}
    \cup {D1(K_Sub, S(Placeholder(n))) : n \in {N_Pw, N_Lst, K_Region, K_NoValue, N_Both}}
    \cup {D1(K_Sub, S(<<"$", "{", "}", "}", "$", "{", "}">>))}

OtherNodes ==
    { S(D_SM), S(D_SMK), S(D_SSM), S(D_SMV), S(D_Emb), S(D_Two), S(N_a), VInt(1), VBool(FALSE), VNone,
      D1(K_Sub, S(N_x \o D_SM)), Call(K_Sub, <<S(Placeholder(N_K)), D1(N_K, S(D_SM))>>),
      D1(K_GetAtt, S(N_Bkt \o S_Dot \o N_Attr)),
      Call(K_GetAtt, <<S(N_Bkt), S(N_Attr)>>),
      D1(K_Base64, Ref(N_Env)),
      D1(K_GetAZs, S(<<>>)), D1(K_GetAZs, S(N_eu)),
      D1(K_Length, VList(<<S(N_a), Ref(K_NoValue)>>)), D1(K_Length, S(N_a)),
      ImportBranch, D1(K_ImportValue, Ref(N_Env)),
      Call(K_Join, <<S(N_comma), VList(<<S(N_a), VInt(1), Ref(N_Env), Ref(K_NoValue)>>)>>),
      Call(K_Split, <<S(N_comma), S(N_abc)>>),
      Call(K_Equals, <<VBool(TRUE), VInt(1)>>),
      Call(K_And, <<D1(K_Condition, S(N_IsDev)), D1(K_Condition, S(N_Zz)), MissBranch>>),
      Call(K_Or, <<D1(K_Condition, S(N_IsProd)), S(N_a), MissBranch>>),
      D1(K_Not, D1(K_Condition, S(N_IsProd))) }

\* dotted attribute names: a declared resource, an undeclared one, two dots
DottedNames ==
    { N_Bkt \o S_Dot \o N_Attr, N_Zz \o S_Dot \o N_Attr,
      N_Bkt \o S_Dot \o N_K \o S_Dot \o N_Attr }

\* nodes as the loader builds them from the shorthand tags, and the string form of
\* Fn::GetAtt written out
TaggedNodes ==
    {multi_constructor(S_GetAtt, ScalarNode(d)) : d \in DottedNames}
    \cup {D1(K_GetAtt, S(d)) : d \in DottedNames}
    \cup { multi_constructor(S_GetAtt, SequenceNode(<<S(N_Bkt), S(N_Attr)>>)),
           multi_constructor(S_GetAtt, SequenceNode(<<S(N_Zz), S(N_Attr)>>)),
           multi_constructor(K_Ref, ScalarNode(N_Env)),
           multi_constructor(<<"S", "e", "l", "e", "c", "t">>,
                             SequenceNode(<<VInt(0), VList(<<S(N_a)>>)>>)),
           multi_constructor(<<"S", "u", "b">>, ScalarNode(Placeholder(N_Env))),
           multi_constructor(<<"T", "r", "a", "n", "s", "f", "o", "r", "m">>,
                             MappingNode(<< <<N_Name, S(N_a)>> >>)) }

NodeSet ==
    RefNodes \cup ContainerNodes \cup MalformedNodes \cup IfNodes \cup ConditionNodes
    \cup MapNodes \cup SelectNodes \cup SubNodes \cup OtherNodes \cup TaggedNodes

-----------------------------------------------------------------------------
(* The state machine: process(), and a caller's resolve(arg) on the renderer *)

\* no resolve() call was made yet
NoCall == [t |-> "nocall"]

\* the renderer as its methods read it
Self ==
    [context |-> context, mappings |-> mappings, conditions |-> conditions,
     resources |-> resources, env_name |-> env_name, profile |-> profile,
     log_level_int |-> log_level_int, current_resource_id |-> current_resource_id,
     current_resource_type |-> current_resource_type, aws |-> aws]

\* what the provider may answer to the next call: anything, once a session exists
Answers == IF Truthy(profile) THEN Worlds ELSE {aws}

Init ==
    \E run \in Runs : \E a \in NodeSet :
        /\ template = run.template
        /\ config = run.config
        /\ env_name = run.env
        /\ profile = run.profile
        /\ log_level_int = LOG_LEVELS[run.level]
        /\ arg = a
        /\ aws = NoWorld
        /\ pc = "start"
        /\ sam_params = VNone
        /\ context = VNone
        /\ mappings = VNone
        /\ conditions = VNone
        /\ resources = VNone
        /\ current_resource_id = VNone
        /\ current_resource_type = VNone
        /\ ri = 0
        /\ resolved = VDict(<<>>)
        /\ output = VNone
        /\ node = NoCall
        /\ result = NoCall
        /\ trace = <<>>
        /\ renderers = <<>>
        /\ finished = <<>>
        /\ diff = VNone
        /\ stack = <<>>

\* process(): sam_params = load_sam_config(config, env)
LoadSamConfig ==
    /\ pc = "start"
    /\ sam_params' = load_sam_config(config, env_name)
    /\ pc' = "loaded"
    /\ UNCHANGED <<renderers, finished, diff, stack, template, config, env_name, profile, log_level_int, aws, arg, context,
                   mappings, conditions, resources, current_resource_id,
                   current_resource_type, ri, resolved, output, node, result, trace>>

\* process(): renderer = TemplateRenderer(template, profile, region, env, log_level)
Construct ==
    LET region == PyGet(sam_params, K_Region, VStr(S_DefaultRegion))
        ctx == init_context(template, region)
    IN  /\ pc = "loaded"
        /\ mappings' = PyGet(template, K_Mappings, VDict(<<>>))
        /\ conditions' = PyGet(template, K_Conditions, VDict(<<>>))
        /\ resources' = PyGet(template, K_Resources, VDict(<<>>))
        /\ current_resource_id' = VNone
        /\ current_resource_type' = VNone
        /\ context' = IF IsRaise(ctx) THEN VNone ELSE ctx
        /\ pc' = IF IsRaise(ctx) THEN "raised" ELSE "constructed"
        /\ UNCHANGED <<renderers, finished, diff, stack, template, config, env_name, profile, log_level_int, aws, arg,
                       sam_params, ri, resolved, output, node, result, trace>>

\* process(): renderer.context.update(sam_params)
Merge ==
    /\ pc = "constructed"
    /\ context' = Update(context, sam_params)
    /\ pc' = "ready"
    /\ UNCHANGED <<renderers, finished, diff, stack, template, config, env_name, profile, log_level_int, aws, arg,
                   sam_params, mappings, conditions, resources, current_resource_id,
                   current_resource_type, ri, resolved, output, node, result, trace>>

\* a caller's renderer.resolve(arg), before process() goes on
Resolve ==
    /\ pc = "ready"
    /\ \E w \in Answers :
        \E r \in {resolve(arg, [Self EXCEPT !.aws = w])} :
            /\ aws' = w
            /\ node' = arg
            /\ result' = r.v
            /\ trace' = r.tr
    /\ UNCHANGED <<renderers, finished, diff, stack, template, config, env_name, profile, log_level_int, pc, arg,
                   sam_params, context, mappings, conditions, resources,
                   current_resource_id, current_resource_type, ri, resolved, output>>

\* resolve_resources(): one turn of the loop over self.resources
StepResource ==
    /\ pc \in {"ready", "resources"}
    /\ ri < Len(resources.kv)
    /\ \E w \in Answers :
        LET logical_id == resources.kv[ri + 1][1]
            res_def == resources.kv[ri + 1][2]
            type == IF res_def.t = "dict" THEN PyGet(res_def, K_Type, VNone) ELSE VNone
        IN  \E r \in {resolve(res_def, [Self EXCEPT !.aws = w,
                                                     !.current_resource_id = VStr(logical_id),
                                                     !.current_resource_type = type])} :
            /\ aws' = w
            /\ current_resource_id' = VStr(logical_id)
            /\ current_resource_type' = type
            /\ node' = res_def
            /\ result' = r.v
            /\ trace' = r.tr
            /\ resolved' = IF IsRaise(r.v) \/ r.v = VNone THEN resolved
                           ELSE Put(resolved, logical_id, r.v)
            /\ ri' = IF IsRaise(r.v) THEN ri ELSE ri + 1
            /\ pc' = IF IsRaise(r.v) THEN "raised" ELSE "resources"
    /\ UNCHANGED <<renderers, finished, diff, stack, template, config, env_name, profile, log_level_int, arg, sam_params,
                   context, mappings, conditions, resources, output>>

\* the end of a loop that leaves the current resource as the last turn set it
FinishResourcesKeep ==
    /\ pc \in {"ready", "resources"}
    /\ ri = Len(resources.kv)
    /\ pc' = "conditions"
    /\ UNCHANGED <<renderers, finished, diff, stack, template, config, env_name, profile,
                   log_level_int, aws, arg, sam_params, context, mappings, conditions,
                   resources, current_resource_id, current_resource_type, ri, resolved,
                   output, node, result, trace>>

\* resolve_resources(): the loop is over, the current resource is reset
FinishResources ==
    /\ pc \in {"ready", "resources"}
    /\ ri = Len(resources.kv)
    /\ current_resource_id' = VNone
    /\ current_resource_type' = VNone
    /\ pc' = "conditions"
    /\ UNCHANGED <<renderers, finished, diff, stack, template, config, env_name, profile, log_level_int, aws, arg,
                   sam_params, context, mappings, conditions, resources, ri, resolved,
                   output, node, result, trace>>

\* process(): output = {Resources: resolved_resources, Conditions: resolve(conditions)}
ResolveConditions ==
    /\ pc = "conditions"
    /\ \E w \in Answers :
        \E r \in {resolve(conditions, [Self EXCEPT !.aws = w])} :
            /\ aws' = w
            /\ node' = conditions
            /\ result' = r.v
            /\ trace' = r.tr
            /\ output' = IF IsRaise(r.v) THEN output
                         ELSE VDict(<< <<K_Resources, resolved>>, <<K_Conditions, r.v>> >>)
            /\ pc' = IF IsRaise(r.v) THEN "raised" ELSE "done"
    /\ UNCHANGED <<renderers, finished, diff, stack, template, config, env_name, profile, log_level_int, arg, sam_params,
                   context, mappings, conditions, resources, current_resource_id,
                   current_resource_type, ri, resolved>>

Next ==
    \/ LoadSamConfig
    \/ Construct
    \/ Merge
    \/ Resolve
    \/ StepResource
    \/ FinishResources
    \/ ResolveConditions

Spec == Init /\ [][Next]_vars

-----------------------------------------------------------------------------

-----------------------------------------------------------------------------
(* async_main() with a second environment: two process() threads *)

Threads == {1, 2}

\* the lines _log() printed among the events of a call
LogLines(tr) == SelectSeq(tr, LAMBDA e : e.e = "log")

\* --env/--env2, --profile/--profile2 and what each profile's provider answers
TwoRuns ==
    {[template |-> t, config |-> c, level |-> "DEBUG",
      envs |-> e, profiles |-> <<VNone, VNone>>, worlds |-> <<NoWorld, NoWorld>>] :
        t \in {TemplateA, TemplateB}, c \in {ConfigToml, ConfigMissing},
        e \in {<<N_default, N_stag>>, <<N_stag, N_default>>}}
    \cup {[template |-> TemplateA, config |-> ConfigToml, level |-> "INFO",
           envs |-> <<N_default, N_stag>>, profiles |-> <<S(N_p), S(N_p)>>,
           worlds |-> <<w1, w2>>] : w1 \in Worlds, w2 \in Worlds}

\* a thread that asyncio.to_thread has not started yet
NewThread(env, prof, world) ==
    [env_name |-> env, profile |-> prof, aws |-> world, pc |-> "start",
     sam_params |-> VNone, context |-> VNone, mappings |-> VNone, conditions |-> VNone,
     resources |-> VNone, current_resource_id |-> VNone, current_resource_type |-> VNone,
     ri |-> 0, resolved |-> VDict(<<>>), output |-> VNone, lines |-> <<>>]

\* thread i's renderer as its methods read it, its current resource taken from thread j's
RendererFields(i, j) ==
    [context |-> renderers[i].context, mappings |-> renderers[i].mappings,
     conditions |-> renderers[i].conditions, resources |-> renderers[i].resources,
     env_name |-> renderers[i].env_name, profile |-> renderers[i].profile,
     log_level_int |-> log_level_int,
     current_resource_id |-> renderers[j].current_resource_id,
     current_resource_type |-> renderers[j].current_resource_type,
     aws |-> renderers[i].aws]

\* a renderer whose current resource is the first thread's
RendererOfFirst(i) == RendererFields(i, 1)

\* thread i's renderer: every field is the instance's own
RendererSelf(i) == RendererFields(i, i)

\* compare(a, b): the two [environment, output] pairs it is given, in order
compare(a, b) == [t |-> "compare", fromfile |-> a[1], a_lines |-> a[2],
                  tofile |-> b[1], b_lines |-> b[2]]

TwoInit ==
    \E run \in TwoRuns :
        /\ template = run.template
        /\ config = run.config
        /\ log_level_int = LOG_LEVELS[run.level]
        /\ renderers = [i \in Threads |->
                            NewThread(run.envs[i], run.profiles[i], run.worlds[i])]
        /\ finished = <<>>
        /\ diff = VNone
        /\ stack = <<>>
        /\ env_name = run.envs[1]
        /\ profile = run.profiles[1]
        /\ arg = VNone
        /\ aws = NoWorld
        /\ pc = "gather"
        /\ sam_params = VNone
        /\ context = VNone
        /\ mappings = VNone
        /\ conditions = VNone
        /\ resources = VNone
        /\ current_resource_id = VNone
        /\ current_resource_type = VNone
        /\ ri = 0
        /\ resolved = VDict(<<>>)
        /\ output = VNone
        /\ node = NoCall
        /\ result = NoCall
        /\ trace = <<>>

\* what a thread's step leaves alone
OneRender == <<stack, template, config, env_name, profile, log_level_int, aws, arg, pc,
               sam_params, context, mappings, conditions, resources,
               current_resource_id, current_resource_type, ri, resolved, output,
               node, result, trace>>

\* the thread's future completes when process() returns or raises
Completed(i, to) == IF to \in {"done", "raised"} THEN Append(finished, i) ELSE finished

\* thread i, process(): sam_params = load_sam_config(config, env)
ThreadLoadSamConfig(i) ==
    /\ renderers[i].pc = "start"
    /\ renderers' = [renderers EXCEPT
                        ![i].sam_params = load_sam_config(config, renderers[i].env_name),
                        ![i].pc = "loaded"]
    /\ UNCHANGED <<finished, diff, OneRender>>

\* thread i, process(): renderer = TemplateRenderer(template, profile, region, env, log_level)
ThreadConstruct(i) ==
    LET region == PyGet(renderers[i].sam_params, K_Region, VStr(S_DefaultRegion))
        ctx == init_context(template, region)
        to == IF IsRaise(ctx) THEN "raised" ELSE "constructed"
    IN  /\ renderers[i].pc = "loaded"
        /\ renderers' = [renderers EXCEPT
                            ![i].mappings = PyGet(template, K_Mappings, VDict(<<>>)),
                            ![i].conditions = PyGet(template, K_Conditions, VDict(<<>>)),
                            ![i].resources = PyGet(template, K_Resources, VDict(<<>>)),
                            ![i].context = IF IsRaise(ctx) THEN VNone ELSE ctx,
                            ![i].pc = to]
        /\ finished' = Completed(i, to)
        /\ UNCHANGED <<diff, OneRender>>

\* thread i, process(): renderer.context.update(sam_params)
ThreadMerge(i) ==
    /\ renderers[i].pc = "constructed"
    /\ renderers' = [renderers EXCEPT
                        ![i].context = Update(renderers[i].context, renderers[i].sam_params),
                        ![i].pc = "resources"]
    /\ UNCHANGED <<finished, diff, OneRender>>

\* thread i, resolve_resources(): self.current_resource_id, self.current_resource_type = ...
ThreadEnterResource(i) ==
    /\ renderers[i].pc = "resources"
    /\ renderers[i].ri < Len(renderers[i].resources.kv)
    /\ LET res_def == renderers[i].resources.kv[renderers[i].ri + 1][2]
       IN  renderers' = [renderers EXCEPT
                ![i].current_resource_id =
                    VStr(renderers[i].resources.kv[renderers[i].ri + 1][1]),
                ![i].current_resource_type =
                    IF res_def.t = "dict" THEN PyGet(res_def, K_Type, VNone) ELSE VNone,
                ![i].pc = "resource"]
    /\ UNCHANGED <<finished, diff, OneRender>>

\* thread i, resolve_resources(): resolved_val = self.resolve(res_def), and its storing
ThreadResolveResource(i) ==
    /\ renderers[i].pc = "resource"
    /\ \E r \in {resolve(renderers[i].resources.kv[renderers[i].ri + 1][2], RendererSelf(i))} :
        \E to \in {IF IsRaise(r.v) THEN "raised" ELSE "resources"} :
            /\ renderers' = [renderers EXCEPT
                    ![i].resolved =
                        IF IsRaise(r.v) \/ r.v = VNone THEN renderers[i].resolved
                        ELSE Put(renderers[i].resolved,
                                 renderers[i].resources.kv[renderers[i].ri + 1][1], r.v),
                    ![i].ri = IF IsRaise(r.v) THEN renderers[i].ri ELSE renderers[i].ri + 1,
                    ![i].lines = renderers[i].lines \o LogLines(r.tr),
                    ![i].pc = to]
            /\ finished' = Completed(i, to)
    /\ UNCHANGED <<diff, OneRender>>

\* thread i, resolve_resources(): the loop is over, the current resource is reset
ThreadFinishResources(i) ==
    /\ renderers[i].pc = "resources"
    /\ renderers[i].ri = Len(renderers[i].resources.kv)
    /\ renderers' = [renderers EXCEPT ![i].current_resource_id = VNone,
                                      ![i].current_resource_type = VNone,
                                      ![i].pc = "conditions"]
    /\ UNCHANGED <<finished, diff, OneRender>>

\* thread i, process(): output = {Resources: ..., Conditions: resolve(conditions)}
ThreadResolveConditions(i) ==
    /\ renderers[i].pc = "conditions"
    /\ \E r \in {resolve(renderers[i].conditions, RendererSelf(i))} :
        \E to \in {IF IsRaise(r.v) THEN "raised" ELSE "done"} :
            /\ renderers' = [renderers EXCEPT
                    ![i].output =
                        IF IsRaise(r.v) THEN r.v
                        ELSE VDict(<< <<K_Resources, renderers[i].resolved>>,
                                      <<K_Conditions, r.v>> >>),
                    ![i].lines = renderers[i].lines \o LogLines(r.tr),
                    ![i].pc = to]
            /\ finished' = Completed(i, to)
    /\ UNCHANGED <<diff, OneRender>>

\* async_main(): output1, output2 = await gather(task1, task2); diff = compare(...)
Gather ==
    /\ pc = "gather"
    /\ \A i \in Threads : renderers[i].pc \in {"done", "raised"}
    /\ diff' = IF \E i \in Threads : renderers[i].pc = "raised"
               THEN VRaise("gather")
               ELSE compare(<<renderers[1].env_name, renderers[1].output>>,
                            <<renderers[2].env_name, renderers[2].output>>)
    /\ pc' = IF \E i \in Threads : renderers[i].pc = "raised" THEN "raised" ELSE "done"
    /\ UNCHANGED <<renderers, finished, stack, template, config, env_name, profile,
                   log_level_int, aws, arg, sam_params, context, mappings, conditions,
                   resources, current_resource_id, current_resource_type, ri, resolved,
                   output, node, result, trace>>

TwoNext ==
    \/ \E i \in Threads : ThreadLoadSamConfig(i)
    \/ \E i \in Threads : ThreadConstruct(i)
    \/ \E i \in Threads : ThreadMerge(i)
    \/ \E i \in Threads : ThreadEnterResource(i)
    \/ \E i \in Threads : ThreadResolveResource(i)
    \/ \E i \in Threads : ThreadFinishResources(i)
    \/ \E i \in Threads : ThreadResolveConditions(i)
    \/ Gather

TwoSpec == TwoInit /\ [][TwoNext]_vars

-----------------------------------------------------------------------------
(* process() run on its own, as one function of its arguments *)

\* the one element of a one-element set
The(set) == CHOOSE x \in set : TRUE

RECURSIVE alone_resources(_, _, _)
\* resolve_resources() from entry k on; acc is [resolved, lines]
alone_resources(self, k, acc) ==
    IF k > Len(self.resources.kv) THEN [resolved |-> acc.resolved, lines |-> acc.lines,
                                        raised |-> FALSE]
    ELSE The({ IF IsRaise(r.v)
               THEN [resolved |-> acc.resolved, lines |-> acc.lines \o LogLines(r.tr),
                     raised |-> TRUE]
               ELSE alone_resources(self, k + 1,
                        [resolved |-> IF r.v = VNone THEN acc.resolved
                                      ELSE Put(acc.resolved, self.resources.kv[k][1], r.v),
                         lines |-> acc.lines \o LogLines(r.tr)]) :
               r \in {resolve(self.resources.kv[k][2],
                              [self EXCEPT
                                 !.current_resource_id = VStr(self.resources.kv[k][1]),
                                 !.current_resource_type =
                                    IF self.resources.kv[k][2].t = "dict"
                                    THEN PyGet(self.resources.kv[k][2], K_Type, VNone)
                                    ELSE VNone])} })

\* process() once the renderer is constructed and the parameters are merged
process_renderer(self) ==
    The({ IF rr.raised THEN [output |-> VRaise("resolve_resources"), lines |-> rr.lines]
          ELSE The({ IF IsRaise(rc.v)
                     THEN [output |-> rc.v, lines |-> rr.lines \o LogLines(rc.tr)]
                     ELSE [output |-> VDict(<< <<K_Resources, rr.resolved>>,
                                               <<K_Conditions, rc.v>> >>),
                           lines |-> rr.lines \o LogLines(rc.tr)] :
                     rc \in {resolve(self.conditions, self)} }) :
          rr \in {alone_resources(self, 1, [resolved |-> VDict(<<>>), lines |-> <<>>])} })

\* process(config, env, template, profile, log_level) with the provider answering world
process(cfg, env, t, prof, level_int, world) ==
    The({ IF IsRaise(ctx) THEN [output |-> ctx, lines |-> <<>>]
          ELSE process_renderer(
                 [context |-> Update(ctx, sam),
                  mappings |-> PyGet(t, K_Mappings, VDict(<<>>)),
                  conditions |-> PyGet(t, K_Conditions, VDict(<<>>)),
                  resources |-> PyGet(t, K_Resources, VDict(<<>>)),
                  env_name |-> env, profile |-> prof, log_level_int |-> level_int,
                  current_resource_id |-> VNone, current_resource_type |-> VNone,
                  aws |-> world]) :
          <<sam, ctx>> \in { <<s, init_context(t, PyGet(s, K_Region, VStr(S_DefaultRegion)))>> :
                             s \in {load_sam_config(cfg, env)} } })

-----------------------------------------------------------------------------
(* The walk of resolve(): one frame of the interpreter's stack for each call *)
(* of resolve() that has not returned, and the calls each frame makes        *)

\* the interpreter's recursion limit, in resolve() frames
RecursionLimit == 12

NoChild == [some |-> FALSE]
\* the call resolve(c), unless taking c out of the arguments raised
ChildOf(c) == IF IsRaise(c) THEN NoChild ELSE [some |-> TRUE, node |-> c]
\* a name that may be a key of a dict
IsName(v) == v.t = "str"

\* _handle_map: the call it makes once its earlier calls returned vals
map_calls(args, vals, self) ==
    LET k == Len(vals)
        a(i) == Subscript(args, VInt(i))
        l1 == Subscript(self.mappings, vals[1])
        l2 == Subscript(l1, vals[2])
        val == IF IsRaise(l1) THEN l1 ELSE IF IsRaise(l2) THEN l2
               ELSE Subscript(l2, vals[3])
        excepted == IF PyLen(args) > 3
                    THEN IF a(3).t = "dict" /\ HasKey(a(3), K_DefaultValue)
                         THEN ChildOf(Get(a(3), K_DefaultValue))
                         ELSE ChildOf(a(3))
                    ELSE NoChild
    IN  CASE k = 0 -> ChildOf(a(0))
          [] k \in {1, 2} -> IF IsRaise(vals[k]) THEN NoChild ELSE ChildOf(a(k))
          [] k = 3 -> IF IsRaise(vals[3]) THEN NoChild
                      ELSE IF CaughtByMap(val) THEN excepted
                      ELSE ChildOf(val)
          [] k = 4 -> IF ~IsRaise(val) /\ CaughtByMap(vals[4]) THEN excepted
                      ELSE NoChild
          [] OTHER -> NoChild

RECURSIVE sub_nodes(_, _, _, _)
\* _handle_sub: the nodes repl() resolves, match after match from position i of s on
sub_nodes(s, i, vars_map, self) ==
    IF i > Len(s) THEN <<>>
    ELSE IF SubMatchEnd(s, i) = 0 THEN sub_nodes(s, i + 1, vars_map, self)
    ELSE (IF HasKey(vars_map, SubSeq(s, i + 2, SubMatchEnd(s, i) - 1))
          THEN <<Get(vars_map, SubSeq(s, i + 2, SubMatchEnd(s, i) - 1))>>
          ELSE IF HasKey(self.context, SubSeq(s, i + 2, SubMatchEnd(s, i) - 1))
          THEN <<Get(self.context, SubSeq(s, i + 2, SubMatchEnd(s, i) - 1))>>
          ELSE <<>>)
         \o sub_nodes(s, SubMatchEnd(s, i) + 1, vars_map, self)

\* _handle_sub: the call it makes once k calls returned
sub_calls(args, k, self) ==
    LET text == IF args.t = "list" THEN Subscript(args, VInt(0)) ELSE args
        vars_map == IF args.t = "list" THEN Subscript(args, VInt(1)) ELSE VDict(<<>>)
    IN  IF IsRaise(text) \/ IsRaise(vars_map) THEN NoChild
        ELSE IF text.t # "str" \/ vars_map.t # "dict" THEN NoChild
        ELSE IF k < Len(sub_nodes(text.s, 1, vars_map, self))
        THEN ChildOf(sub_nodes(text.s, 1, vars_map, self)[k + 1])
        ELSE NoChild

\* a handler that resolves args[0] and then args[1]: the call once k calls returned
pair_calls(args, k) == IF k < 2 THEN ChildOf(Subscript(args, VInt(k))) ELSE NoChild

\* _handle_getatt: the call it makes once k calls returned
getatt_calls(args0, k) ==
    pair_calls(IF args0.t = "str"
               THEN VList([i \in 1..Len(StrSplit(args0.s, S_Dot)) |->
                              VStr(StrSplit(args0.s, S_Dot)[i])])
               ELSE args0, k)

\* _handle_select: the index is resolved and converted before the list is resolved
select_calls(args, vals) ==
    IF Len(vals) = 1 /\ IsRaise(PyInt(vals[1])) THEN NoChild
    ELSE pair_calls(args, Len(vals))

\* _handle_join: the call it makes once k calls returned
join_calls(args, k) ==
    IF k = 0 /\ ~IsRaise(Subscript(args, VInt(0))) THEN ChildOf(Subscript(args, VInt(1)))
    ELSE NoChild

\* a handler that resolves its argument and nothing else
single_calls(val, k) == IF k = 0 THEN ChildOf(val) ELSE NoChild

\* _handle_not: the call it makes once k calls returned
not_calls(args, k) ==
    single_calls(IF args.t = "list" THEN Subscript(args, VInt(0)) ELSE args, k)

\* _handle_and: the operands in order, up to the first falsy one
and_calls(args, vals) ==
    IF ~IsIterable(args) \/ Len(vals) >= Len(Items(args)) THEN NoChild
    ELSE IF vals # <<>> /\ ~Truthy(vals[Len(vals)]) THEN NoChild
    ELSE ChildOf(Items(args)[Len(vals) + 1])

\* _handle_or: the operands in order, up to the first truthy one
or_calls(args, vals) ==
    IF ~IsIterable(args) \/ Len(vals) >= Len(Items(args)) THEN NoChild
    ELSE IF vals # <<>> /\ Truthy(vals[Len(vals)]) THEN NoChild
    ELSE ChildOf(Items(args)[Len(vals) + 1])

\* a handler that resolves the reference itself, not the expression it names
condition_calls_again(name, k, self) ==
    IF k = 0 /\ IsName(name) /\ HasKey(self.conditions, name.s)
    THEN ChildOf(VDict(<< <<K_Condition, name>> >>))
    ELSE NoChild

\* _handle_condition: the expression of a known condition is resolved
condition_calls(name, k, self) ==
    IF k = 0 /\ IsName(name) /\ HasKey(self.conditions, name.s)
    THEN ChildOf(Get(self.conditions, name.s))
    ELSE NoChild

\* _handle_if: the expression of a known condition, then the branch it selects
if_calls(args, vals, self) ==
    LET k == Len(vals)
        condition_name == Subscript(args, VInt(0))
        value_if_true == Subscript(args, VInt(1))
        value_if_false == Subscript(args, VInt(2))
        known == IsName(condition_name) /\ HasKey(self.conditions, condition_name.s)
        expression == Get(self.conditions, condition_name.s)
    IN  IF \/ IsRaise(condition_name) \/ IsRaise(value_if_true) \/ IsRaise(value_if_false)
           \/ Unhashable(condition_name)
        THEN NoChild
        ELSE IF known
        THEN CASE k = 0 -> ChildOf(expression)
               [] k = 1 -> IF Truthy(vals[1]) THEN ChildOf(value_if_true)
                           ELSE ChildOf(value_if_false)
               [] OTHER -> NoChild
        ELSE IF k = 0 THEN ChildOf(value_if_false) ELSE NoChild

\* the handler's next call once its earlier calls returned vals, in dispatch()'s order
handler_calls(key, val, vals, self) ==
  LET k == Len(vals) IN
    CASE key = K_Ref -> NoChild
      [] key = K_FindInMap -> map_calls(val, vals, self)
      [] key = K_Sub -> sub_calls(val, k, self)
      [] key = K_ImportValue -> single_calls(val, k)
      [] key = K_Join -> join_calls(val, k)
      [] key = K_GetAtt -> getatt_calls(val, k)
      [] key = K_Select -> select_calls(val, vals)
      [] key = K_Split -> pair_calls(val, k)
      [] key = K_Base64 -> single_calls(val, k)
      [] key = K_GetAZs -> single_calls(val, k)
      [] key = K_Length -> single_calls(val, k)
      [] key = K_If -> if_calls(val, vals, self)
      [] key = K_Equals -> pair_calls(val, k)
      [] key = K_Not -> not_calls(val, k)
      [] key = K_And -> and_calls(val, vals)
      [] key = K_Or -> or_calls(val, vals)
      [] key = K_Condition -> condition_calls(val, k, self)
      [] key = K_FnCondition -> condition_calls(val, k, self)

\* resolve(n): the call it, or the handler it dispatches to, makes once its
\* earlier calls returned vals
resolve_calls(n, vals, self) ==
    CASE IsIntrinsicCall(n) -> handler_calls(n.kv[1][1], n.kv[1][2], vals, self)
      [] n.t = "dict" /\ ~IsIntrinsicCall(n) ->
            IF Len(vals) < Len(n.kv) THEN ChildOf(n.kv[Len(vals) + 1][2]) ELSE NoChild
      [] n.t = "list" -> IF Len(vals) < Len(n.xs) THEN ChildOf(n.xs[Len(vals) + 1])
                         ELSE NoChild
      [] OTHER -> NoChild

\* the frame's next call; none once a call it made raised and nothing caught it
NextCall(frame, self) ==
    IF /\ frame.vals # <<>>
       /\ IsRaise(frame.vals[Len(frame.vals)])
       /\ ~(IsIntrinsicCall(frame.node) /\ frame.node.kv[1][1] = K_FindInMap)
    THEN NoChild
    ELSE resolve_calls(frame.node, frame.vals, self)

\* a template whose conditions, mapping leaves and parameter defaults name one another
TemplateW ==
    VDict(<<
      <<K_Parameters, VDict(<<
          <<N_Rec, D1(K_Default, D1(K_Sub, S(Placeholder(N_Rec))))>>,
          <<N_Y, D1(K_Default, D1(K_Sub, S(Placeholder(N_Z))))>>,
          <<N_Z, D1(K_Default, S(N_z))>> >>)>>,
      <<K_Mappings, D1(N_M, D1(N_dev, VDict(<<
          <<N_Ami, S(N_v1)>>,
          <<N_Hop, Call(K_FindInMap, <<S(N_M), S(N_dev), S(N_Ami)>>)>>,
          <<N_Loop, Call(K_FindInMap, <<S(N_M), S(N_dev), S(N_Loop)>>)>>,
          <<N_Cross, D1(K_Condition, S(N_Via))>> >>)))>>,
      <<K_Conditions, VDict(<<
          <<N_IsDev, Call(K_Equals, <<S(N_a), S(N_a)>>)>>,
          <<N_NotDev, Call(K_Not, <<D1(K_FnCondition, S(N_IsDev))>>)>>,
          <<N_Deep, Call(K_And, <<D1(K_Condition, S(N_IsDev)),
                                  Call(K_Not, <<D1(K_Condition, S(N_NotDev))>>)>>)>>,
          <<N_Same, D1(K_Condition, S(N_Same))>>,
          <<N_Ping, Call(K_Not, <<D1(K_Condition, S(N_Pong))>>)>>,
          <<N_Pong, Call(K_If, <<S(N_Ping), S(N_a), S(N_b)>>)>>,
          <<N_Via, Call(K_FindInMap, <<S(N_M), S(N_dev), S(N_Cross)>>)>> >>)>>,
      <<K_Resources, D1(N_Bkt, D1(K_Type, S(N_T1)))>> >>)

\* nodes whose references end
EndingNodes ==
    { D1(K_Condition, S(N_Deep)),
      D1(K_FnCondition, S(N_NotDev)),
      D1(K_Condition, S(N_Gone)),
      Call(K_If, <<S(N_NotDev), D1(K_Sub, S(Placeholder(N_Y))), S(N_b)>>),
      Call(K_If, <<S(N_IsDev), D1(K_Sub, S(Placeholder(N_Y) \o Placeholder(N_Z))), S(N_b)>>),
      Call(K_FindInMap, <<S(N_M), S(N_dev), S(N_Hop)>>),
      Call(K_FindInMap, <<S(N_M), S(N_dev), S(N_Gone), D1(K_Condition, S(N_IsDev))>>),
      Call(K_Sub, <<S(Placeholder(N_K)), D1(N_K, D1(K_Condition, S(N_NotDev)))>>),
      Call(K_Select, <<S(N_x), D1(K_Condition, S(N_IsDev))>>),
      Call(K_Join, <<S(N_comma), VList(<<D1(K_Ref, S(N_Bkt)), D1(K_GetAtt, S(N_Bkt \o S_Dot \o N_Attr))>>)>>),
      VDict(<< <<N_Name, D1(K_Condition, S(N_IsDev))>>,
               <<N_Opt, VList(<<D1(K_Ref, S(N_Z)), D1(K_Base64, D1(K_Sub, S(Placeholder(N_Y))))>>)>> >>) }

\* nodes from which a reference comes back to itself
LoopingNodes ==
    { D1(K_Condition, S(N_Same)),
      D1(K_FnCondition, S(N_Ping)),
      Call(K_If, <<S(N_Pong), S(N_a), S(N_b)>>),
      Call(K_FindInMap, <<S(N_M), S(N_dev), S(N_Loop)>>),
      D1(K_Sub, S(Placeholder(N_Rec))),
      D1(K_Condition, S(N_Via)),
      Call(K_Or, <<D1(K_Condition, S(N_IsDev)), D1(K_Condition, S(N_Same))>>),
      Call(K_And, <<D1(K_Condition, S(N_IsDev)), D1(K_Condition, S(N_Same))>>),
      VList(<<S(N_a), D1(N_Name, D1(K_Sub, S(Placeholder(N_Rec))))>>) }

WalkNodes == EndingNodes \cup LoopingNodes

\* a frame entered for node n
Frame(n) == [node |-> n, vals |-> <<>>]

\* a renderer of TemplateW is constructed; a caller's resolve(n) is entered
WalkInit ==
    \E n \in WalkNodes :
        /\ template = TemplateW
        /\ config = ConfigMissing
        /\ env_name = N_default
        /\ profile = VNone
        /\ log_level_int = LOG_LEVELS["WARN"]
        /\ arg = n
        /\ aws = NoWorld
        /\ pc = "walking"
        /\ sam_params = VDict(<<>>)
        /\ context = init_context(TemplateW, VStr(S_DefaultRegion))
        /\ mappings = PyGet(TemplateW, K_Mappings, VDict(<<>>))
        /\ conditions = PyGet(TemplateW, K_Conditions, VDict(<<>>))
        /\ resources = PyGet(TemplateW, K_Resources, VDict(<<>>))
        /\ current_resource_id = VNone
        /\ current_resource_type = VNone
        /\ ri = 0
        /\ resolved = VDict(<<>>)
        /\ output = VNone
        /\ node = n
        /\ result = NoCall
        /\ trace = <<EvResolve(n)>>
        /\ renderers = <<>>
        /\ finished = <<>>
        /\ diff = VNone
        /\ stack = <<Frame(n)>>

\* what a step of the walk leaves alone
Renderer == <<template, config, env_name, profile, log_level_int, aws, arg, sam_params,
              context, mappings, conditions, resources, current_resource_id,
              current_resource_type, ri, resolved, output, node, renderers, finished,
              diff>>

\* the frame on top calls resolve() on its next node
WalkCall ==
    /\ pc = "walking"
    /\ Len(stack) < RecursionLimit
    /\ \E c \in {NextCall(stack[Len(stack)], Self)} :
        /\ c.some
        /\ stack' = Append(stack, Frame(c.node))
        /\ trace' = Append(trace, EvResolve(c.node))
    /\ UNCHANGED <<pc, result, Renderer>>

\* the call would be one frame too many: RecursionError unwinds every frame
WalkOverflow ==
    /\ pc = "walking"
    /\ Len(stack) = RecursionLimit
    /\ NextCall(stack[Len(stack)], Self).some
    /\ stack' = <<>>
    /\ result' = VRaise("RecursionError")
    /\ pc' = "RecursionError"
    /\ UNCHANGED <<trace, Renderer>>

\* the frame on top has no call left to make: it returns, or raises, to its caller
WalkReturn ==
    /\ pc = "walking"
    /\ Len(stack) > 1
    /\ ~NextCall(stack[Len(stack)], Self).some
    /\ \E r \in {resolve(stack[Len(stack)].node, Self)} :
        stack' = [SubSeq(stack, 1, Len(stack) - 1) EXCEPT
                    ![Len(stack) - 1].vals = Append(@, r.v)]
    /\ UNCHANGED <<pc, result, trace, Renderer>>

\* the caller's resolve(n) returns, or raises what a call it made raised
WalkDone ==
    /\ pc = "walking"
    /\ Len(stack) = 1
    /\ ~NextCall(stack[1], Self).some
    /\ stack' = <<>>
    /\ \E r \in {resolve(node, Self)} : result' = r.v
    /\ pc' = "returned"
    /\ UNCHANGED <<trace, Renderer>>

WalkNext ==
    \/ WalkCall
    \/ WalkOverflow
    \/ WalkReturn
    \/ WalkDone

\* a step of the walk is enabled exactly while the caller's resolve() has not ended
Walking == pc = "walking"

\* The interpreter runs the walk on, a step that can be taken is taken:
\* WF_vars(WalkNext), with ENABLED <<WalkNext>>_vars written as Walking.
WalkSpec == WalkInit /\ [][WalkNext]_vars /\ ([]<>(~Walking) \/ []<><<WalkNext>>_vars)
(* The properties of the renderer, each checked in every reachable state. node,
   result and trace are the last resolve() call: its argument, what it returned
   (a VRaise when it raised) and what it did. *)

Called == node # NoCall

\* n is {fn: args}
IsCallOf(n, fn) == n.t = "dict" /\ Len(n.kv) = 1 /\ n.kv[1][1] = fn
ArgsOf(n) == n.kv[1][2]
\* n is {fn: [a1, ..., ak]} with k >= least
IsListCall(n, fn, least) ==
    IsCallOf(n, fn) /\ ArgsOf(n).t = "list" /\ Len(ArgsOf(n).xs) >= least

\* resolve(n) was entered during the call tr records
Mentions(tr, n) == \E i \in 1..Len(tr) : tr[i] = EvResolve(n)
\* the requests the call tr records sent to the provider
ProviderCalls(tr) == {i \in 1..Len(tr) : tr[i].e = "call"}

-----------------------------------------------------------------------------
(* C1 *)

PlainContainer(n) == n.t = "list" \/ (n.t = "dict" /\ ~IsIntrinsicCall(n))

NoNoneChild(v) ==
    CASE v.t = "list" -> \A i \in 1..Len(v.xs) : v.xs[i] # VNone
      [] v.t = "dict" -> \A i \in 1..Len(v.kv) : v.kv[i][2] # VNone
      [] OTHER -> TRUE

\* v, the result of resolving n, holds no None child, and neither do the results of
\* the plain containers nested in n (followed by key in a mapping, and by position
\* in a sequence that lost no element)
RECURSIVE DeepNoNone(_, _)
DeepNoNone(n, v) ==
    IF ~PlainContainer(n) THEN TRUE
    ELSE /\ v.t = n.t
         /\ NoNoneChild(v)
         /\ n.t = "dict" =>
                \A i \in 1..Len(v.kv) :
                    /\ HasKey(n, v.kv[i][1])
                    /\ DeepNoNone(Get(n, v.kv[i][1]), v.kv[i][2])
         /\ (n.t = "list" /\ Len(v.xs) = Len(n.xs)) =>
                \A i \in 1..Len(v.xs) : DeepNoNone(n.xs[i], v.xs[i])

\* C1: the result of resolve() on a node treated as a plain container (a list, or a
\* mapping that is no intrinsic call) never holds None as a mapping value or a list
\* element, whatever produced the None; nor does the mapping resolve_resources()
\* builds.
C1_NoValueDropped ==
    /\ (Called /\ PlainContainer(node) /\ ~IsRaise(result)) => DeepNoNone(node, result)
    /\ NoNoneChild(resolved)
    /\ \A i \in 1..Len(resolved.kv) :
            /\ HasKey(resources, resolved.kv[i][1])
            /\ DeepNoNone(Get(resources, resolved.kv[i][1]), resolved.kv[i][2])

\* a list whose first element is Ref AWS::NoValue and whose last is an Fn::If that
\* takes its AWS::NoValue branch came back with the one element left
C1_Witness ==
    /\ node = VList(<<Ref(K_NoValue), S(N_a),
                      Call(K_If, <<S(N_IsProd), S(N_x), Ref(K_NoValue)>>)>>)
    /\ result = VList(<<S(N_a)>>)

-----------------------------------------------------------------------------
(* C2 *)

\* C2 (as claimed): resolve() never raises for a problem in the template's content:
\* a handler given malformed arguments returns a diagnostic string, and the rest of
\* the tree still resolves.
C2_ResolveNeverRaises == Called => ~IsRaise(result)

-----------------------------------------------------------------------------
(* C3 *)

IsIfCall(n) == IsListCall(n, K_If, 3) /\ ~Unhashable(ArgsOf(n).xs[1])

\* the truth value of the condition named by the first argument
IfCondition(n) ==
    LET name == ArgsOf(n).xs[1]
    IN  IF name.t = "str" /\ HasKey(conditions, name.s)
        THEN resolve(Get(conditions, name.s), Self)
        ELSE Ok(VBool(FALSE))
IfTaken(n) == IF Truthy(IfCondition(n).v) THEN ArgsOf(n).xs[2] ELSE ArgsOf(n).xs[3]
IfUntaken(n) == IF Truthy(IfCondition(n).v) THEN ArgsOf(n).xs[3] ELSE ArgsOf(n).xs[2]

\* C3: Fn::If [name, ifTrue, ifFalse] returns what resolving one branch returns,
\* ifTrue when name is in Conditions and its expression resolves truthy, ifFalse
\* otherwise (an absent name included), and does nothing more than resolve the
\* condition's expression and that branch: the untaken branch is never passed to
\* resolve(), so nothing in it logs or calls the provider. When the condition's
\* expression raises, that exception is the outcome and neither branch is resolved.
C3_IfResolvesOneBranch ==
    (pc = "ready" /\ Called /\ IsIfCall(node)) =>
        LET cond == IfCondition(node)
            branch == resolve(IfTaken(node), Self)
        IN  IF IsRaise(cond.v)
            THEN /\ result = cond.v
                 /\ trace = <<EvResolve(node)>> \o cond.tr
                 /\ ~Mentions(trace, ArgsOf(node).xs[2])
                 /\ ~Mentions(trace, ArgsOf(node).xs[3])
            ELSE /\ result = branch.v
                 /\ trace = <<EvResolve(node)>> \o cond.tr \o branch.tr
                 /\ ~Mentions(trace, IfUntaken(node))

\* with a session, the condition true: the Fn::FindInMap branch was returned and the
\* Fn::ImportValue branch sent nothing to the provider
C3_Witness ==
    /\ pc = "ready"
    /\ HasSession(Self)
    /\ node = Call(K_If, <<S(N_IsDev), MissBranch, ImportBranch>>)
    /\ Truthy(IfCondition(node).v)
    /\ result = resolve(MissBranch, Self).v
    /\ ProviderCalls(trace) = {}

-----------------------------------------------------------------------------
(* C4 *)

IsRefCall(n) == IsCallOf(n, K_Ref) /\ ~Unhashable(ArgsOf(n))

\* what Ref name returns when the provider answers as w does
RefExpected(name, w) ==
    IF name.t = "str" /\ HasKey(context, name.s)
    THEN LET found == Get(context, name.s)
         IN  IF found.t = "str"
             THEN resolve_dynamic_reference(found, [Self EXCEPT !.aws = w]).v
             ELSE found
    ELSE IF name.t = "str" /\ HasKey(resources, name.s)
    THEN VStr(S_Mock \o Lower(name.s) \o S_Id)
    ELSE VStr(S_RefOpen \o PyStr(name) \o S_Close)

\* the context value of name is a string holding a secretsmanager reference
RefReadsSecret(name) ==
    /\ name.t = "str" /\ HasKey(context, name.s)
    /\ Get(context, name.s).t = "str"
    /\ DynRefSearch(Get(context, name.s).s).found
    /\ DynRefSearch(Get(context, name.s).s).service = S_SecretsManager

-----------------------------------------------------------------------------
(* C5 *)

\* what replaces ${name}
SubValue(name, locals) ==
    IF HasKey(locals, name) THEN PyStr(resolve(Get(locals, name), Self).v)
    ELSE IF HasKey(context, name) THEN PyStr(resolve(Get(context, name), Self).v)
    ELSE IF HasKey(resources, name)
    THEN S_Mock \o Lower(name) \o S_Id
    ELSE <<"$", "{">> \o name \o <<"}">>

\* what a piece of the template string becomes
PieceValue(k, locals) ==
    CASE k = "lit" -> PieceText(k)
      [] k = "esc" -> PieceText(k)
      [] k = "ctx" -> SubValue(N_Env, locals)
      [] k = "res" -> SubValue(N_Bkt, locals)
      [] k = "unk" -> SubValue(N_Zz, locals)
RECURSIVE SubExpected(_, _)
SubExpected(ps, locals) ==
    IF ps = <<>> THEN <<>>
    ELSE PieceValue(ps[1], locals) \o SubExpected(Tail(ps), locals)

\* the names of the one-placeholder templates
SubNames == {N_Pw, N_Lst, K_Region, K_NoValue, N_Both}

\* C5: Fn::Sub replaces every ${name} whose name does not start with '!' by the first
\* that applies of: the resolved local-vars entry, the resolved Context entry (both
\* as strings), the mock id when name is a resource, the placeholder itself; ${!name}
\* stays as written; a bare template string has no local vars. (A call that raises,
\* because resolving an entry raised, has no string to speak of.)
C5_SubPlaceholders ==
    (Called /\ ~IsRaise(result)) =>
        /\ \A ps \in PieceSeqs :
            /\ node = BareSub(ps) => result = VStr(SubExpected(ps, VDict(<<>>)))
            /\ node = LocalSub(ps) => result = VStr(SubExpected(ps, SubLocals))
        /\ \A n \in SubNames :
            node = D1(K_Sub, S(Placeholder(n))) => result = VStr(SubValue(n, VDict(<<>>)))

\* Env is a local variable and a key of the Context; Zz is nothing: the local value
\* was used and the unknown placeholder kept
C5_Witness ==
    /\ node = LocalSub(<<"ctx", "unk">>)
    /\ HasKey(context, N_Env)
    /\ result = VStr(N_loc \o <<"$", "{">> \o N_Zz \o <<"}">>)

-----------------------------------------------------------------------------
(* C6 *)

IsConditionCall(n) ==
    (IsCallOf(n, K_Condition) \/ IsCallOf(n, K_FnCondition)) /\ ~Unhashable(ArgsOf(n))

\* C6: Condition and Fn::Condition with a name absent from Conditions resolve to
\* False, never to an error or a diagnostic; with a present name they return what
\* resolving its expression returns; and Fn::If with that name as first argument
\* takes its first branch exactly when that value is truthy.
C6_ConditionLookup ==
    (Called /\ IsConditionCall(node)) =>
        LET name == ArgsOf(node)
            present == name.t = "str" /\ HasKey(conditions, name.s)
            chosen == resolve(Call(K_If, <<name, VBool(TRUE), VBool(FALSE)>>), Self).v
        IN  /\ present => result = resolve(Get(conditions, name.s), Self).v
            /\ ~present => result = VBool(FALSE)
            /\ chosen = IF IsRaise(result) THEN result ELSE VBool(Truthy(result))

C6_Witness ==
    /\ node = D1(K_FnCondition, S(N_Zz))
    /\ ~HasKey(conditions, N_Zz)
    /\ result = VBool(FALSE)

-----------------------------------------------------------------------------
(* C7, C8 *)

IsMapCall(n) == IsListCall(n, K_FindInMap, 3)

\* self.mappings[m][t][s]
MapLeaf(m, t, s) ==
    LET l1 == Subscript(mappings, m)
        l2 == Subscript(l1, t)
    IN  IF IsRaise(l1) THEN l1 ELSE IF IsRaise(l2) THEN l2 ELSE Subscript(l2, s)

\* the three resolved keys of the call n, and the leaf they lead to
MapKeysOf(n) == [i \in 1..3 |-> resolve(ArgsOf(n).xs[i], Self).v]
MapKeysResolved(n) == \A i \in 1..3 : ~IsRaise(MapKeysOf(n)[i])
MapLeafOf(n) == MapLeaf(MapKeysOf(n)[1], MapKeysOf(n)[2], MapKeysOf(n)[3])
MapMiss(n) == IsRaise(MapLeafOf(n)) /\ MapLeafOf(n).e \in {"KeyError", "TypeError"}

\* C7: Fn::FindInMap whose resolved map name, top key or second key is missing from
\* Mappings returns the resolved 4th argument when there is one (its DefaultValue
\* entry, resolved, when it is a mapping carrying DefaultValue; the argument itself,
\* resolved, otherwise) and the string {Error: Could not resolve Map <map>.<top>.<second>}
\* when there is none; the miss itself never raises.
C7_FindInMapMiss ==
    (Called /\ IsMapCall(node) /\ MapKeysResolved(node) /\ MapMiss(node)) =>
        LET xs == ArgsOf(node).xs
            k == MapKeysOf(node)
            d == xs[4]
        IN  IF Len(xs) > 3
            THEN result = resolve(IF d.t = "dict" /\ HasKey(d, K_DefaultValue)
                                  THEN Get(d, K_DefaultValue) ELSE d, Self).v
            ELSE result =
                    VStr(S_MapError \o PyStr(k[1]) \o S_Dot \o PyStr(k[2]) \o S_Dot
                         \o PyStr(k[3]) \o S_Close)

\* a second key the map lacks, and a 4th argument carrying DefaultValue next to
\* another entry
C7_Witness ==
    /\ node = Call(K_FindInMap,
                   <<S(N_M), S(N_dev), S(N_Zz),
                     VDict(<< <<N_K, VInt(1)>>, <<K_DefaultValue, Ref(N_Env)>> >>)>>)
    /\ HasKey(mappings, N_M)
    /\ HasKey(context, N_Env)
    /\ result = Get(context, N_Env)

PlainScalar(v) == v.t \in {"str", "int", "bool"}
MapHitsScalar(n) ==
    /\ IsMapCall(n)
    /\ \A i \in 1..3 : ArgsOf(n).xs[i].t = "str"
    /\ ~IsRaise(MapLeafOf(n))
    /\ PlainScalar(MapLeafOf(n))

\* the text s holds a secretsmanager reference
HoldsSecretReference(s) ==
    DynRefSearch(s).found /\ DynRefSearch(s).service = S_SecretsManager

-----------------------------------------------------------------------------
(* C9 *)

IsSelectCall(n) == IsListCall(n, K_Select, 2)

\* C9: Fn::Select [index, list] returns the element of the resolved list at the
\* integer-coerced resolved index when 0 <= index < its length, and the string
\* {Error: Select index <index> out of bounds} otherwise: an index past the end, a
\* negative index, a second argument that resolves to no list. The list written in
\* the template is resolved first, so its length counts the elements that did not
\* resolve to None.
C9_SelectInBounds ==
    (Called /\ IsSelectCall(node)) =>
        LET xs == ArgsOf(node).xs
            i == resolve(xs[1], Self).v
            idx == IF IsRaise(i) THEN i ELSE PyInt(i)
            lst == resolve(xs[2], Self).v
        IN  (~IsRaise(idx) /\ ~IsRaise(lst)) =>
                /\ IF lst.t = "list" /\ 0 <= idx.n /\ idx.n < Len(lst.xs)
                   THEN result = lst.xs[idx.n + 1]
                   ELSE result = VStr(S_SelectError \o IntStr(idx.n) \o S_OutOfBounds)
                /\ xs[2].t = "list" =>
                        /\ lst.t = "list"
                        /\ Len(lst.xs) =
                              Cardinality({k \in 1..Len(xs[2].xs) :
                                              resolve(xs[2].xs[k], Self).v # VNone})

\* index "1" of [a, Ref AWS::NoValue, b]: the list resolves to [a, b] and b is
\* returned
C9_Witness ==
    /\ node = Call(K_Select, <<S(<<"1">>), VList(<<S(N_a), Ref(K_NoValue), S(N_b)>>)>>)
    /\ result = S(N_b)

-----------------------------------------------------------------------------
(* C10 *)

\* the Parameters section of the template
Parameters == PyGet(template, K_Parameters, VDict(<<>>))
HasDefault(p) == p.t = "dict" /\ HasKey(p, K_Default)
PseudoNames == {K_Region, K_AccountId, K_StackName, K_Partition, K_URLSuffix, K_NoValue}

\* process() has built the context: constructor, then the merge of the overrides
ContextBuilt == pc \in {"ready", "resources", "conditions", "done"}

\* the overrides are in the context whenever a node has been resolved
MergedBeforeResolve ==
    Called =>
        /\ pc \notin {"start", "loaded", "constructed"}
        /\ \A k \in Keys(sam_params) :
                HasKey(context, k) /\ Get(context, k) = Get(sam_params, k)

\* the parameters that declare a Default
DefaultsAndOverrides ==
    \A i \in 1..Len(Parameters.kv) :
        LET name == Parameters.kv[i][1]
            p == Parameters.kv[i][2]
        IN  /\ (HasDefault(p) /\ HasKey(sam_params, name)) =>
                    (HasKey(context, name) /\ Get(context, name) = Get(sam_params, name))
            /\ (HasDefault(p) /\ ~HasKey(sam_params, name)) =>
                    (HasKey(context, name) /\ Get(context, name) = Get(p, K_Default))

\* C10 (as claimed): once process() has built the context, a declared parameter with
\* a Default and an override has the override's value, one with a Default and no
\* override has the Default, and one with neither is not a key of the Context; the
\* overrides are merged before any node is resolved.
C10_UndeclaredValueAbsent ==
    /\ ContextBuilt =>
        /\ DefaultsAndOverrides
        /\ \A i \in 1..Len(Parameters.kv) :
                LET name == Parameters.kv[i][1]
                    p == Parameters.kv[i][2]
                IN  (~HasDefault(p) /\ ~HasKey(sam_params, name)) => ~HasKey(context, name)
    /\ MergedBeforeResolve

\* C10 (amended): once process() has built the context, a declared parameter with a
\* Default and an override has the override's value, one with a Default and no
\* override has the Default, and one with neither is a key of the Context exactly
\* when its name is one of the six pseudo-parameter names, which the constructor
\* always sets; the overrides are merged before any node is resolved.
C10_ContextPrecedence ==
    /\ ContextBuilt =>
        /\ DefaultsAndOverrides
        /\ \A i \in 1..Len(Parameters.kv) :
                LET name == Parameters.kv[i][1]
                    p == Parameters.kv[i][2]
                IN  (~HasDefault(p) /\ ~HasKey(sam_params, name)) =>
                        (HasKey(context, name) <=> name \in PseudoNames)
    /\ MergedBeforeResolve

\* Env declares the Default dev and the config file overrides it with prod; Nd
\* declares no Default and is overridden; a node has been resolved with both
C10_Witness ==
    /\ pc = "ready"
    /\ Called
    /\ template = TemplateA
    /\ HasKey(sam_params, N_Env)
    /\ Get(Get(Parameters, N_Env), K_Default) = S(N_dev)
    /\ Get(sam_params, N_Env) = S(N_prod)
    /\ Get(context, N_Env) = S(N_prod)
    /\ ~HasDefault(Get(Parameters, N_Nd))
    /\ Get(context, N_Nd) = S(N_x)

-----------------------------------------------------------------------------
(* C11 *)

\* the region process() hands to the constructor
RegionOf == PyGet(sam_params, K_Region, VStr(S_DefaultRegion))

\* C11 (as claimed): in every context process() builds, the six pseudo-parameter keys
\* are present with the values the constructor first gave them: neither an override
\* nor a declared parameter's Default of the same name changes one.
C11_PseudoParametersFixed ==
    ContextBuilt =>
        \A i \in 1..Len(PseudoParameters(RegionOf).kv) :
            LET name == PseudoParameters(RegionOf).kv[i][1]
            IN  /\ HasKey(context, name)
                /\ Get(context, name) = PseudoParameters(RegionOf).kv[i][2]

-----------------------------------------------------------------------------
(* C12 *)

\* the text of s before its first colon
FirstSegment(s) ==
    IF \E i \in 1..Len(s) : s[i] = ":"
    THEN SubSeq(s, 1, (CHOOSE i \in 1..Len(s) :
                          s[i] = ":" /\ \A j \in 1..(i - 1) : s[j] # ":") - 1)
    ELSE s

\* C12: a scalar string holding no {{resolve:<service>:<reference>}} is returned
\* unchanged; one whose (leftmost) reference names a service other than
\* secretsmanager is returned verbatim; one whose reference names secretsmanager
\* resolves, without a session, to mock-secret-<secret-id>, the secret id being the
\* reference up to its first colon, so that the json-key and version segments do not
\* matter.
C12_DynamicReference ==
    (Called /\ node.t = "str") =>
        LET m == DynRefSearch(node.s)
        IN  /\ ~m.found => result = node
            /\ (m.found /\ m.service # S_SecretsManager) => result = node
            /\ (m.found /\ m.service = S_SecretsManager /\ ~HasSession(Self)) =>
                    result = VStr(S_MockSecret \o FirstSegment(m.reference))
            /\ (node \in {S(D_SM), S(D_SMK), S(D_SMV)} /\ ~HasSession(Self)) =>
                    result = VStr(S_MockSecret \o <<"d", "b">>)

\* a reference with a json-key and a version stage, resolved without a session
C12_Witness ==
    /\ node = S(D_SMV)
    /\ ~HasSession(Self)
    /\ result = VStr(S_MockSecret \o <<"d", "b">>)

-----------------------------------------------------------------------------
(* C13 *)

\* s holds, somewhere, the text of a secretsmanager reference
HoldsSecretText(s) ==
    \E i \in 1..Len(s) : DynRefAt(s, i).found /\ DynRefAt(s, i).service = S_SecretsManager

\* C13 (as claimed): no string resolve() returns for a scalar, a Ref or an Fn::Sub node
\* still holds the text of a {{resolve:secretsmanager:...}} reference.
C13_NoSecretReferenceLeft ==
    (Called /\ (node.t = "str" \/ IsCallOf(node, K_Ref) \/ IsCallOf(node, K_Sub))
            /\ result.t = "str") =>
        ~HoldsSecretText(result.s)

-----------------------------------------------------------------------------
(* C14 *)

\* the requests of one kind the call tr records
CallsTo(tr, api) == {i \in 1..Len(tr) : tr[i].e = "call" /\ tr[i].api = api}

\* the value of the first export named name in the listing, when there is one
ExportNamed(listing, name) ==
    LET hits == {i \in 1..Len(listing.Exports) : listing.Exports[i].Name = name}
    IN  IF hits = {} THEN [found |-> FALSE]
        ELSE [found |-> TRUE,
              Value |-> listing.Exports[CHOOSE i \in hits : \A j \in hits : i <= j].Value]

\* an import, a secret and a plain string side by side
ImportSecretAndText == VList(<<D1(K_ImportValue, S(N_vpc)), S(D_SM), S(N_a)>>)

\* C14: a provider call is made at most once per resolution and a failed one degrades
\* to the mock, never escalates. Fn::ImportValue returns the value of the export the
\* session lists under the resolved name, and mock-import-<name> when the listing has
\* no such export, fails, or there is no session; a failed secret fetch gives
\* mock-secret-<secret-id>; and the elements next to a failed call still resolve.
C14_ProviderCallsDegrade ==
    Called =>
        /\ (IsCallOf(node, K_ImportValue) /\ ~IsRaise(resolve(ArgsOf(node), Self).v)) =>
            LET name == resolve(ArgsOf(node), Self).v
                listed == HasSession(Self) /\ aws.list_exports.k = "ok" /\ name.t = "str"
                          /\ ExportNamed(aws.list_exports, name.s).found
            IN  /\ result = IF listed
                            THEN VStr(ExportNamed(aws.list_exports, name.s).Value)
                            ELSE VStr(S_MockImport \o PyStr(name))
                /\ Cardinality(CallsTo(trace, "list_exports"))
                        = IF HasSession(Self) THEN 1 ELSE 0
                /\ CallsTo(trace, "get_secret_value") = {}
        /\ (node \in {S(D_SM), S(D_SMK), S(D_SMV)} /\ HasSession(Self)) =>
            /\ Cardinality(CallsTo(trace, "get_secret_value")) = 1
            /\ aws.get_secret_value.k = "ClientError" =>
                    result = VStr(S_MockSecret \o <<"d", "b">>)
        /\ (node = ImportSecretAndText /\ HasSession(Self)) =>
            /\ ~IsRaise(result)
            /\ Len(result.xs) = 3
            /\ result.xs[3] = S(N_a)
            /\ Cardinality(ProviderCalls(trace)) = 2
            /\ aws.list_exports.k = "ClientError" =>
                    result.xs[1] = VStr(S_MockImport \o N_vpc)
            /\ aws.get_secret_value.k = "ClientError" =>
                    result.xs[2] = VStr(S_MockSecret \o <<"d", "b">>)

\* with a session whose calls both fail: the mocks, one call each, the text kept
C14_Witness ==
    /\ node = ImportSecretAndText
    /\ HasSession(Self)
    /\ aws.list_exports.k = "ClientError"
    /\ aws.get_secret_value.k = "ClientError"
    /\ result = VList(<<VStr(S_MockImport \o N_vpc), VStr(S_MockSecret \o <<"d", "b">>),
                        S(N_a)>>)
    /\ Cardinality(ProviderCalls(trace)) = 2

-----------------------------------------------------------------------------
(* C15 *)

\* node is a scalar string whose reference names secretsmanager, resolved with a
\* session whose get_secret_value answered
SecretFetched ==
    /\ Called /\ node.t = "str"
    /\ DynRefSearch(node.s).found
    /\ DynRefSearch(node.s).service = S_SecretsManager
    /\ HasSession(Self)
    /\ aws.get_secret_value.k # "ClientError"

\* what the claim gives for each answer: the binary payload as a string, the secret
\* string, the value under the json-key, or one of the two diagnostics
SecretOutcomes ==
    LET parts == StrSplit(DynRefSearch(node.s).reference, <<":">>)
        id == parts[1]
        keyed == Len(parts) > 1 /\ parts[2] # <<>>
        answer == aws.get_secret_value
        parsed == JsonLoads(answer.SecretString)
    IN  /\ answer.k = "binary" =>
                result = VStr(<<"b", "'">> \o answer.SecretBinary \o <<"'">>)
        /\ (answer.k = "string" /\ ~keyed) => result = VStr(answer.SecretString)
        /\ (answer.k = "string" /\ keyed /\ ~parsed.ok) =>
                result = VStr(S_NotJson \o id \o S_Close)
        /\ (answer.k = "string" /\ keyed /\ parsed.ok /\ parsed.val.t = "dict") =>
                result = IF HasKey(parsed.val, parts[2]) THEN Get(parsed.val, parts[2])
                         ELSE VStr(S_KeyError \o parts[2] \o S_NotFoundInSecret \o id
                                   \o S_Close)

\* C15 (as claimed): with a live session a secretsmanager reference resolves to the
\* stringified payload of a binary secret, the secret string when there is no
\* json-key, the value under json-key when the string parses as an object holding it,
\* {Error: Key <key> not found in secret <id>} when the key is missing,
\* {Error: Secret is not valid JSON: <id>} when the string is no JSON; and no outcome
\* of parsing the secret raises out of resolve().
C15_SecretParsingNeverRaises ==
    SecretFetched => (SecretOutcomes /\ ~IsRaise(result))

-----------------------------------------------------------------------------
(* C16 *)

\* the dotted name d as a [resource, attribute] pair: cut at its first dot
DottedPair(d) ==
    LET dot == CHOOSE i \in 1..Len(d) : d[i] = "." /\ \A j \in 1..(i - 1) : d[j] # "."
    IN  <<SubSeq(d, 1, dot - 1), SubSeq(d, dot + 1, Len(d))>>

\* C16 (as claimed): the dotted scalar form of the attribute lookup, as the shorthand
\* tag or as the string argument of Fn::GetAtt, is split on '.' into exactly a
\* [resource, attribute] pair and resolves to what the sequence form resolves to: the
\* lowercased string mock-<resource>-<attribute>, with no provider call, the
\* resource declared or not.
C16_DottedGetAtt ==
    Called =>
        \A d \in DottedNames :
            /\ multi_constructor(S_GetAtt, ScalarNode(d))
                    = D1(K_GetAtt, VList(<<S(DottedPair(d)[1]), S(DottedPair(d)[2])>>))
            /\ (node = multi_constructor(S_GetAtt, ScalarNode(d)) \/ node = D1(K_GetAtt, S(d))) =>
                /\ result = VStr(Lower(S_Mock \o DottedPair(d)[1] \o S_Dash
                                       \o DottedPair(d)[2]))
                /\ result = resolve(multi_constructor(S_GetAtt,
                                SequenceNode(<<S(DottedPair(d)[1]), S(DottedPair(d)[2])>>)),
                                    Self).v
                /\ ProviderCalls(trace) = {}

-----------------------------------------------------------------------------
(* C17 *)

\* the environment-config file is missing or is no TOML
ConfigUnusable == config.k \in {"missing", "malformed"}

\* C17: a missing or unparseable environment-config file is never fatal to a render:
\* load_sam_config returns an empty mapping, and process() carries on with region
\* us-east-1 and a context made of the pseudo-parameters and the parameter defaults
\* only; what stops a render short of its output, if anything, is an exception of
\* the constructor or of resolve() itself.
C17_ConfigNeverFatal ==
    ConfigUnusable =>
        /\ pc # "start" => (sam_params = VDict(<<>>) /\ RegionOf = VStr(S_DefaultRegion))
        /\ context # VNone =>
            /\ context = init_context(template, VStr(S_DefaultRegion))
            /\ \A k \in Keys(context) :
                    \/ k \in PseudoNames
                    \/ /\ HasKey(Parameters, k)
                       /\ HasDefault(Get(Parameters, k))
                       /\ Get(context, k) = Get(Get(Parameters, k), K_Default)
        /\ pc = "raised" => (context = VNone \/ IsRaise(result))
        /\ pc \in {"ready", "resources"} => ri <= Len(resources.kv)
        /\ pc = "done" => Keys(output) = {K_Resources, K_Conditions}

\* the file is no TOML and the render of the first template ran to its end
C17_Witness ==
    /\ config.k = "malformed"
    /\ pc = "done"
    /\ template = TemplateA
    /\ sam_params = VDict(<<>>)
    /\ Get(context, K_Region) = VStr(S_DefaultRegion)
    /\ Keys(output) = {K_Resources, K_Conditions}


-----------------------------------------------------------------------------
(* C18: the two renders of the two-environment mode (TwoSpec) *)

\* thread i's process() call, run on its own
Alone(i) ==
    process(config, renderers[i].env_name, template, renderers[i].profile,
            log_level_int, renderers[i].aws)

\* s is the beginning of t
IsPrefix(s, t) == Len(s) <= Len(t) /\ s = SubSeq(t, 1, Len(s))

\* C18: in two-environment mode the two renders run as concurrent threads and the
\* diff is computed only after both completed, from the first environment's
\* output and then the second's, whichever finished first; under every
\* interleaving each render's output, and every line it logged with its resource
\* id and type, is what that render produces when run alone.
C18_TwoRendersIndependent ==
    /\ diff # VNone => /\ Len(finished) = 2
                       /\ \A i \in Threads : renderers[i].pc \in {"done", "raised"}
    /\ (diff # VNone /\ ~IsRaise(diff)) =>
            diff = [t |-> "compare",
                    fromfile |-> renderers[1].env_name, a_lines |-> renderers[1].output,
                    tofile |-> renderers[2].env_name, b_lines |-> renderers[2].output]
    /\ \A i \in Threads : \A alone \in {Alone(i)} :
        /\ IsPrefix(renderers[i].lines, alone.lines)
        /\ renderers[i].pc = "done" => /\ renderers[i].output = alone.output
                                       /\ renderers[i].lines = alone.lines
        /\ renderers[i].pc = "raised" => /\ IsRaise(alone.output)
                                         /\ renderers[i].lines = alone.lines

\* the second thread completed first, the diff still names the first environment
\* first; the two outputs differ and the second render logged under a resource
C18_Witness ==
    /\ diff # VNone
    /\ ~IsRaise(diff)
    /\ finished = <<2, 1>>
    /\ diff.fromfile = N_default
    /\ diff.tofile = N_stag
    /\ diff.a_lines # diff.b_lines
    /\ \E k \in 1..Len(renderers[2].lines) : renderers[2].lines[k].resource_id # VNone

-----------------------------------------------------------------------------
(* C19: resolution reads the renderer and writes nothing but the current resource *)

\* resolve() or resolve_resources() is what the next step runs
Resolving == pc \in {"ready", "resources", "conditions"}

\* the node of the latest call resolved again now, whatever the provider would answer
ResolvedAgain == {resolve(node, [Self EXCEPT !.aws = w]).v : w \in Worlds}

-----------------------------------------------------------------------------
(* C20: the walk of resolve() ends when the named references form no cycle *)
(* (WalkSpec)                                                              *)

\* a named reference: a condition, a context entry, or a mapping leaf m.t.s
NameOf(kind, a, b, c) == [kind |-> kind, a |-> a, b |-> b, c |-> c]

\* every leaf of self.mappings
LeafNames ==
    UNION { UNION { { NameOf("leaf", mappings.kv[i][1], mappings.kv[i][2].kv[j][1],
                             mappings.kv[i][2].kv[j][2].kv[l][1]) :
                        l \in 1..Len(mappings.kv[i][2].kv[j][2].kv) } :
                    j \in 1..Len(mappings.kv[i][2].kv) } :
            i \in 1..Len(mappings.kv) }

\* the expression a name stands for
TargetOf(x) ==
    CASE x.kind = "condition" -> Get(conditions, x.a)
      [] x.kind = "context" -> Get(context, x.a)
      [] x.kind = "leaf" -> Get(Get(Get(mappings, x.a), x.b), x.c)

\* the condition a Condition, Fn::Condition or Fn::If names, when it is defined
ConditionRef(name) ==
    IF name.t = "str" /\ HasKey(conditions, name.s)
    THEN {NameOf("condition", name.s, <<>>, <<>>)}
    ELSE {}

\* the leaves an Fn::FindInMap may look up: the one its literal keys name, else any
LeafRefs(args) ==
    IF args.t = "list" /\ Len(args.xs) >= 3 /\ \A i \in 1..3 : args.xs[i].t = "str"
    THEN {x \in LeafNames : x.a = args.xs[1].s /\ x.b = args.xs[2].s /\ x.c = args.xs[3].s}
    ELSE LeafNames

RECURSIVE PlaceholderNames(_, _)
\* the names between ${ and } in s, from position i on
PlaceholderNames(s, i) ==
    IF i > Len(s) THEN {}
    ELSE IF SubMatchEnd(s, i) = 0 THEN PlaceholderNames(s, i + 1)
    ELSE {SubSeq(s, i + 2, SubMatchEnd(s, i) - 1)}
            \cup PlaceholderNames(s, SubMatchEnd(s, i) + 1)

RECURSIVE RefsOf(_)
RECURSIVE IntrinsicRefs(_, _)
RECURSIVE SubRefs(_, _)

\* the names an Fn::Sub with this text and this local map refers to
SubRefs(text, vars_map) ==
    UNION { IF vars_map.t = "dict" /\ HasKey(vars_map, v) THEN RefsOf(Get(vars_map, v))
            ELSE IF HasKey(context, v) THEN {NameOf("context", v, <<>>, <<>>)}
            ELSE {} :
            v \in PlaceholderNames(text, 1) }

\* the names an intrinsic call refers to
IntrinsicRefs(key, val) ==
    CASE key \in {K_Condition, K_FnCondition} -> ConditionRef(val)
      [] key = K_If ->
            (IF val.t = "list" /\ Len(val.xs) >= 1 THEN ConditionRef(val.xs[1]) ELSE {})
                \cup RefsOf(val)
      [] key = K_FindInMap -> RefsOf(val) \cup LeafRefs(val)
      [] key = K_Sub ->
            IF val.t = "str" THEN SubRefs(val.s, VDict(<<>>))
            ELSE IF val.t = "list" /\ Len(val.xs) >= 2 /\ val.xs[1].t = "str"
            THEN SubRefs(val.xs[1].s, val.xs[2])
            ELSE {}
      [] key = K_Ref -> {}
      [] OTHER -> RefsOf(val)

\* the names written in expression e
RefsOf(e) ==
    CASE IsIntrinsicCall(e) -> IntrinsicRefs(e.kv[1][1], e.kv[1][2])
      [] e.t = "dict" /\ ~IsIntrinsicCall(e) ->
            UNION {RefsOf(e.kv[i][2]) : i \in 1..Len(e.kv)}
      [] e.t = "list" -> UNION {RefsOf(e.xs[i]) : i \in 1..Len(e.xs)}
      [] OTHER -> {}

RECURSIVE ReachFrom(_)
\* the names reachable from a set of names
ReachFrom(names) ==
    IF \A x \in names : RefsOf(TargetOf(x)) \subseteq names THEN names
    ELSE ReachFrom(names \cup UNION {RefsOf(TargetOf(x)) : x \in names})

\* the expression of x reaches x again
OnCycle(x) == x \in ReachFrom(RefsOf(TargetOf(x)))

\* no name reachable from node n reaches itself
Acyclic(n) == \A x \in ReachFrom(RefsOf(n)) : ~OnCycle(x)

\* the nodes resolve() was entered with, in order, in the events of a call
Entered(tr) == SelectSeq(tr, LAMBDA e : e.e = "resolve")

\* C20: when no condition, mapping leaf or context value reachable from the node
\* reaches itself, the walk of resolve(node) never runs into the recursion limit
\* and resolve(node) returns, having entered the nodes resolve() reports in its
\* events; nothing but the end of the references bounds the depth of the walk.
C20_AcyclicWalkReturns ==
    /\ [](Acyclic(node) => pc # "RecursionError")
    /\ [](pc = "returned" => (trace = Entered(resolve(node, Self).tr) /\ stack = <<>>))
    /\ (Acyclic(node) ~> pc = "returned")

\* a walk that went through a chain of at least two names and returned a value
C20_Witness ==
    /\ pc = "returned"
    /\ stack = <<>>
    /\ Acyclic(node)
    /\ Cardinality(ReachFrom(RefsOf(node))) >= 2
    /\ Len(trace) >= 6
    /\ ~IsRaise(result)
====
